---- MODULE Spec2Model ----
(***************************************************************************)
(* A model of the BedSolution CLI telemetry core:                          *)
(*   - core/serialcm/serial_communication.py  (SpecSerial)                 *)
(*   - service/signal_pipeline.py             (SpecPipeline)               *)
(*   - service/pressure_logger/*.py           (SpecLogger)                 *)
(* The three components share one list of variables; each specification    *)
(* moves its own component and leaves the others at their initial value.   *)
(***************************************************************************)
EXTENDS Integers, Sequences, FiniteSets, TLC

VARIABLES
    \* ---- SerialCommunication (class-level shared state) ----
    boards,          \* SerialCommunication.boards : board -> BoardData | NoData
    revision,        \* SerialCommunication.revision
    boards_lock,     \* holder of boards_lock / update_cv (Free or a port)
    \* ---- one _serial_thread per port ----
    rpc,             \* port -> position in the read loop
    rdata,           \* port -> BoardData returned by _parse, not yet published
    rline,           \* port -> the accepted line whose reading the thread is publishing
    rtmp,            \* port -> value of revision loaded by `revision += 1`
    nread,           \* lines read so far over all ports
    \* ---- stream() generator frame ----
    spc,             \* position of the generator
    rev_now,         \* local rev_now
    now,             \* local now
    last_rev,        \* local last_rev
    last_emit,       \* local last_emit
    conv_idx,        \* loop index of _convert_to_matrix
    head,            \* local head grid being filled
    body,            \* local body grid being filled
    emitted,         \* the SerialSignal last yielded (NoSignal before the first)
    sclock,          \* time.time(), in ticks
    \* ---- history of the shared state, for stating the claims ----
    published,       \* number of readings whose guarded update has completed
    lastPub,         \* board -> the reading most recently stored for it
    hist,            \* hist[r+1] = the board map as it stood at revision r
    \* ---- SignalPipeline ----
    task_queue,      \* self.task_queue (Queue of DetectionTask)
    result_queue,    \* self.result_queue (Queue of DetectionResult)
    stop_event,      \* self.stop_event
    wpc,             \* position of _detector_worker
    wtask,           \* the task the worker holds
    stpc,            \* position of stop()
    nsubmitted,      \* number of process() calls so far; the next task is nsubmitted + 1
    pushed,          \* history: the tasks whose result was put, in order of the put
    admitted_late,   \* history: a process() call put a task after the stop signal
    \* ---- PressureLogger ----
    files,           \* pressure_cache/daycache_<date>.json : date -> DayCache
    last_day_cache,  \* self.last_day_cache (NoCache for None)
    threshold,       \* self.threshold : region -> seconds
    has_patient,     \* self._has_patient_threshold
    loaded_at,       \* self._threshold_loaded_at (NotLoaded for None)
    sent,            \* self._notification_sent : region -> BOOLEAN
    clock,           \* timestamp of the latest observation (task.timestamp), in ticks
    lag,             \* datetime.now() - timestamp while that observation was logged
    lpc,             \* where the worker is in log(): "idle", "upload" or "return"
    \* ---- history of the logger, for stating the claims ----
    obs,             \* what the latest log() call was given and did
    stream,          \* summary of all observations since the empty cache
    triggered,       \* region -> notify requests it triggered since the last flag reset
    all_sent,        \* every request since that reset reached the messaging service
    \* ---- the remote store behind ServerAPI ----
    outage,          \* "before", "down" (the store is unreachable) or "after"
    day_logs,        \* table day_logs: the ids of its rows
    pressure_logs,   \* table pressure_logs: its rows, as [id, sec]
    \* ---- HeatmapRealtime ----
    upload_queue,    \* self.upload_queue, oldest first; a heatmap is the number of its sync() call
    rt_is_running,   \* self.is_running
    rt_stop_event,   \* self.stop_event
    upc,             \* position of _upload_worker
    uheld,           \* the heatmap the upload worker holds (0: none)
    sypc,            \* position of sync()
    sy_item,         \* the heatmap of the sync() call in progress
    nsync,           \* number of sync() calls of a registered device so far
    rspc,            \* position of HeatmapRealtime.stop()
    \* ---- history of the side channel, for stating the claims ----
    sy_full,         \* the latest sync() call found the queue full
    last_put,        \* the heatmap of the latest put (0: none)
    \* ---- PostureDetector ----
    scaler,          \* PostureDetector.scaler is loaded (class attribute)
    predictor,       \* PostureDetector.predictor is loaded (class attribute)
    detected         \* the latest call of detect(): its task, inputs and outcome

serialVars == <<boards, revision, boards_lock, rpc, rdata, rline, rtmp, nread,
                spc, rev_now, now, last_rev, last_emit, conv_idx, head, body,
                emitted, sclock, published, lastPub, hist>>

pipeVars == <<task_queue, result_queue, stop_event, wpc, wtask, stpc, nsubmitted, pushed,
              admitted_late>>

logVars == <<files, last_day_cache, threshold, has_patient, loaded_at, sent, clock, lag,
             lpc, obs, stream, triggered, all_sent>>

storeVars == <<outage, day_logs, pressure_logs>>

rtVars == <<upload_queue, rt_is_running, rt_stop_event, upc, uheld, sypc, sy_item, nsync,
            rspc, sy_full, last_put>>

detVars == <<scaler, predictor, detected>>

vars == <<serialVars, pipeVars, logVars, storeVars, rtVars, detVars>>

-----------------------------------------------------------------------------
(* Bounds of the serial model *)
MaxLines == 2
MaxClock == 1

(* stream(): min_interval fallback "0.1" s; the clock ticks every 0.1 s *)
MinInterval == 1

(* the serial devices _find_ports discovered: one _serial_thread each *)
Ports == {1, 2}
Free == 0

BOARDS == <<"UNO0_", "UNO1_", "UNO2_", "UNO3_", "UNO4_", "UNO5_", "UNO6_">>
HEAD_BOARD == "UNO0_"
BoardSet == {BOARDS[i] : i \in 1..Len(BOARDS)}

NoData == [none |-> TRUE]
NoSignal == [none |-> TRUE]
(* the thread holds no accepted line; no line on the wire has this token *)
NoLine == <<[k |-> "none"]>>

-----------------------------------------------------------------------------
(* Lines on the wire.  A line is a sequence of tokens:                      *)
(*   [k |-> "A", b, c, v]   UNOn_Ck : v   /  UNOn_Ck = v                    *)
(*   [k |-> "T", b]         [UNOn]                                          *)
(*   [k |-> "B", c, v]      Ck=v  /  Ck: v                                  *)
(*   [k |-> "X"]            any other text                                  *)
(* Board tags are matched case-insensitively and upper-cased.               *)
TokA(b, c, v) == [k |-> "A", b |-> b, c |-> c, v |-> v]
TokT(b) == [k |-> "T", b |-> b]
TokB(c, v) == [k |-> "B", c |-> c, v |-> v]
TokX == [k |-> "X"]

Upper(tag) ==
    CASE tag = "uno1_" -> "UNO1_"
      [] tag = "uno2" -> "UNO2"
      [] OTHER -> tag

EmptyData == [x \in {} |-> 0]

DictPut(d, key, v) == [x \in (DOMAIN d) \cup {key} |-> IF x = key THEN v ELSE d[x]]

DictGet(d, key) == IF key \in DOMAIN d THEN d[key] ELSE 0

RECURSIVE FirstIndex(_, _, _)
FirstIndex(line, kind, i) ==
    IF i > Len(line) THEN 0
    ELSE IF line[i].k = kind THEN i
    ELSE FirstIndex(line, kind, i + 1)

(* every board tag counts as the governing board's *)
GovernsAny(board, tag) == TRUE

(* the pattern {board} matches the tag, ignoring case *)
Governs(board, tag) == Upper(tag) = board

(* re.finditer(rf"({board}C(\d+))\s*[:=]\s*(-?\d+)", line, IGNORECASE) *)
RECURSIVE CollectA(_, _, _, _)
CollectA(line, board, i, data) ==
    IF i > Len(line) THEN data
    ELSE IF line[i].k = "A" /\ Governs(board, line[i].b)
         THEN CollectA(line, board, i + 1, DictPut(data, <<board, line[i].c>>, line[i].v))
         ELSE CollectA(line, board, i + 1, data)

(* re.finditer(r'\bC\s*(\d+)\s*[:=]\s*(-?\d+)\b', rest) *)
RECURSIVE CollectB(_, _, _, _)
CollectB(rest, board, i, data) ==
    IF i > Len(rest) THEN data
    ELSE IF rest[i].k = "B"
         THEN CollectB(rest, board, i + 1, DictPut(data, <<board, rest[i].c>>, rest[i].v))
         ELSE CollectB(rest, board, i + 1, data)

BoardData(board, data) == [board |-> board, data |-> data]

(* SerialCommunication._parse: a BoardData, or NoData for None *)
_parse(line) ==
    IF Len(line) = 0 THEN NoData
    ELSE LET a == FirstIndex(line, "A", 1)
             t == FirstIndex(line, "T", 1)
         IN  IF a > 0
             THEN LET board == Upper(line[a].b)
                  IN  BoardData(board, CollectA(line, board, 1, EmptyData))
             ELSE IF t > 0
             THEN LET bnorm == Upper(line[t].b)
                      board == bnorm \o "_"
                      \* re.sub(r'^\s*\[\s*UNOn\s*\]\s*', '', line): only a leading tag is cut
                      rest == IF line[1].k = "T" /\ Upper(line[1].b) = bnorm
                              THEN Tail(line) ELSE line
                  IN  BoardData(board, CollectB(rest, board, 1, EmptyData))
             ELSE NoData

(* The lines the modelled ports send *)
SampleLines ==
    { <<TokA("UNO1_", 0, 1)>>,
      <<TokA("uno1_", 0, 2), TokA("UNO2_", 0, 1)>>,
      <<TokT("uno2"), TokB(0, 1), TokB(7, 2)>>,
      <<TokX>>,
      <<>> }

-----------------------------------------------------------------------------
(* _convert_to_matrix *)
ZeroHead == [r \in 0..1 |-> [c \in 0..2 |-> 0]]
ZeroBody == [r \in 0..11 |-> [c \in 0..6 |-> 0]]

(* the loop reading channels 0.. whatever the row's offset *)
FillRowFromZero(grid, row, n, data, board, off) ==
    [grid EXCEPT ![row] =
        [c \in DOMAIN grid[row] |->
            IF c < n /\ DictGet(data, <<board, c>>) # 0
            THEN DictGet(data, <<board, c>>)
            ELSE grid[row][c]]]

(* one `for c in range(n): val = data.get(...); if val: grid[row][c] = val` loop *)
FillRow(grid, row, n, data, board, off) ==
    [grid EXCEPT ![row] =
        [c \in DOMAIN grid[row] |->
            IF c < n /\ DictGet(data, <<board, off + c>>) # 0
            THEN DictGet(data, <<board, off + c>>)
            ELSE grid[row][c]]]

(* the body of the loop over enumerate(BOARDS) for index idx (0-based),    *)
(* given bd = boards.get(board)                                            *)
ConvertBoard(hb, idx, bd) ==
    LET board == BOARDS[idx + 1]
        top == 2 * idx
        bottom == top + 1
    IN  IF bd = NoData \/ bd.data = EmptyData THEN hb
        ELSE IF board = HEAD_BOARD
        THEN [hb EXCEPT !.head = FillRow(FillRow(hb.head, top, 3, bd.data, board, 0),
                                         bottom, 3, bd.data, board, 3)]
        ELSE [hb EXCEPT !.body = FillRow(FillRow(hb.body, top - 2, 7, bd.data, board, 0),
                                         bottom - 2, 7, bd.data, board, 7)]

RECURSIVE ConvertFrom(_, _, _)
ConvertFrom(bs, idx, hb) ==
    IF idx >= Len(BOARDS) THEN hb
    ELSE ConvertFrom(bs, idx + 1, ConvertBoard(hb, idx, bs[BOARDS[idx + 1]]))

(* _convert_to_matrix applied to one fixed board map *)
_convert_to_matrix(bs) == ConvertFrom(bs, 0, [head |-> ZeroHead, body |-> ZeroBody])

-----------------------------------------------------------------------------
(* _serial_thread *)

NoBoards == [b \in BoardSet |-> NoData]

(* the guarded update entered without taking boards_lock *)
CanAcquireUnguarded(p) == TRUE

(* `with SerialCommunication.update_cv:` can be entered *)
CanAcquire(p) == boards_lock = Free

(* the map rebuilt from the one reading instead of updated in place *)
StoreBoardReplacing(bs, d) == [b \in DOMAIN bs |-> IF b = d.board THEN d ELSE NoData]

(* SerialCommunication.boards[data.board] = data *)
StoreBoard(bs, d) == [bs EXCEPT ![d.board] = d]

(* line = s.readline(); decode; data = _parse(line); if not data: continue *)
(* `Lines' is what the port may send.                                      *)
R_ReadLineFrom(p, Lines) ==
    /\ rpc[p] = "read"
    /\ nread < MaxLines
    /\ nread' = nread + 1
    /\ \E line \in Lines :
         LET data == _parse(line)
         IN  IF data = NoData
             THEN UNCHANGED <<rpc, rdata, rline>>
             ELSE /\ rdata' = [rdata EXCEPT ![p] = data]
                  /\ rline' = [rline EXCEPT ![p] = line]
                  /\ rpc' = [rpc EXCEPT ![p] = "acquire"]
    /\ UNCHANGED <<pipeVars, logVars, storeVars, rtVars, detVars>>
    /\ UNCHANGED <<boards, revision, boards_lock, rtmp, spc, rev_now, now, last_rev,
                   last_emit, conv_idx, head, body, emitted, sclock, published,
                   lastPub, hist>>

R_ReadLine(p) == R_ReadLineFrom(p, SampleLines)

(* a line that cannot be decoded as UTF-8: logged, `continue` *)
R_DecodeError(p) ==
    /\ rpc[p] = "read"
    /\ nread < MaxLines
    /\ nread' = nread + 1
    /\ UNCHANGED <<pipeVars, logVars, storeVars, rtVars, detVars>>
    /\ UNCHANGED <<boards, revision, boards_lock, rpc, rdata, rline, rtmp, spc, rev_now, now,
                   last_rev, last_emit, conv_idx, head, body, emitted, sclock,
                   published, lastPub, hist>>

R_Acquire(p) ==
    /\ rpc[p] = "acquire"
    /\ CanAcquire(p)
    /\ boards_lock' = p
    /\ rpc' = [rpc EXCEPT ![p] = "store"]
    /\ UNCHANGED <<pipeVars, logVars, storeVars, rtVars, detVars>>
    /\ UNCHANGED <<boards, revision, rdata, rline, rtmp, nread, spc, rev_now, now, last_rev,
                   last_emit, conv_idx, head, body, emitted, sclock, published,
                   lastPub, hist>>

(* boards[data.board] = data, then the load half of `revision += 1` *)
R_Store(p) ==
    /\ rpc[p] = "store"
    /\ boards' = StoreBoard(boards, rdata[p])
    /\ lastPub' = [lastPub EXCEPT ![rdata[p].board] = rdata[p]]
    /\ rtmp' = [rtmp EXCEPT ![p] = revision]
    /\ rpc' = [rpc EXCEPT ![p] = "inc"]
    /\ UNCHANGED <<pipeVars, logVars, storeVars, rtVars, detVars>>
    /\ UNCHANGED <<revision, boards_lock, rdata, rline, nread, spc, rev_now, now, last_rev,
                   last_emit, conv_idx, head, body, emitted, sclock, published, hist>>

(* the store half of `revision += 1` *)
R_Inc(p) ==
    /\ rpc[p] = "inc"
    /\ revision' = rtmp[p] + 1
    /\ published' = published + 1
    /\ hist' = Append(hist, boards)
    /\ rpc' = [rpc EXCEPT ![p] = "release"]
    /\ UNCHANGED <<pipeVars, logVars, storeVars, rtVars, detVars>>
    /\ UNCHANGED <<boards, boards_lock, rdata, rline, rtmp, nread, spc, rev_now, now, last_rev,
                   last_emit, conv_idx, head, body, emitted, sclock, lastPub>>

(* update_cv.notify_all(), leave the with block *)
R_Release(p) ==
    /\ rpc[p] = "release"
    /\ boards_lock' = IF boards_lock = p THEN Free ELSE boards_lock
    /\ rdata' = [rdata EXCEPT ![p] = NoData]
    /\ rline' = [rline EXCEPT ![p] = NoLine]
    /\ rpc' = [rpc EXCEPT ![p] = "read"]
    /\ UNCHANGED <<pipeVars, logVars, storeVars, rtVars, detVars>>
    /\ UNCHANGED <<boards, revision, rtmp, nread, spc, rev_now, now, last_rev,
                   last_emit, conv_idx, head, body, emitted, sclock, published,
                   lastPub, hist>>

(* s.readline() raises (serial.SerialException, OSError): the exception     *)
(* leaves the while loop, is logged by the outer handler, and the thread    *)
(* returns.                                                                 *)
R_IOError(p) ==
    /\ rpc[p] = "read"
    /\ nread < MaxLines
    /\ nread' = nread + 1
    /\ rpc' = [rpc EXCEPT ![p] = "returned"]
    /\ UNCHANGED <<pipeVars, logVars, storeVars, rtVars, detVars>>
    /\ UNCHANGED <<boards, revision, boards_lock, rdata, rline, rtmp, spc, rev_now, now,
                   last_rev, last_emit, conv_idx, head, body, emitted, sclock,
                   published, lastPub, hist>>

(* The lines of the reader specification: every line of at most two of     *)
(* these tokens, and the sample lines.                                      *)
ParseTokens ==
    { TokA("uno1_", 0, 1), TokA("UNO1_", 7, 2), TokA("UNO2_", 0, -2),
      TokT("UNO1"), TokT("uno2"), TokB(0, 1), TokB(7, -2), TokX }

ParseLines ==
    {<<>>} \cup {<<a>> : a \in ParseTokens}
           \cup {<<a, b>> : a, b \in ParseTokens}
           \cup SampleLines

(* The reader threads alone, on ports that send any of ParseLines and may   *)
(* fail.                                                                    *)
NextReader ==
    \/ \E p \in Ports : R_ReadLineFrom(p, ParseLines)
    \/ \E p \in Ports : R_DecodeError(p)
    \/ \E p \in Ports : R_IOError(p)
    \/ \E p \in Ports : R_Acquire(p)
    \/ \E p \in Ports : R_Store(p)
    \/ \E p \in Ports : R_Inc(p)
    \/ \E p \in Ports : R_Release(p)

-----------------------------------------------------------------------------
(* stream() *)

(* with update_cv: wait(timeout); rev_now = revision; board_snapshot = boards;  *)
(* now = time.time().  board_snapshot is the shared dict itself, not a copy.    *)
(* Then: if rev_now == last_rev and (now - last_emit) < min_interval: continue  *)
S_Wait ==
    /\ spc = "wait"
    /\ boards_lock = Free
    /\ rev_now' = revision
    /\ now' = sclock
    /\ IF revision = last_rev /\ (sclock - last_emit) < MinInterval
       THEN UNCHANGED <<spc, conv_idx, head, body>>
       ELSE /\ spc' = "convert"
            /\ conv_idx' = 0
            /\ head' = ZeroHead
            /\ body' = ZeroBody
    /\ UNCHANGED <<pipeVars, logVars, storeVars, rtVars, detVars>>
    /\ UNCHANGED <<boards, revision, boards_lock, rpc, rdata, rline, rtmp, nread, last_rev,
                   last_emit, emitted, sclock, published, lastPub, hist>>

(* one iteration of the loop of _convert_to_matrix, reading the live dict *)
S_Convert ==
    /\ spc = "convert"
    /\ conv_idx < Len(BOARDS)
    /\ LET hb == ConvertBoard([head |-> head, body |-> body], conv_idx,
                              boards[BOARDS[conv_idx + 1]])
       IN  /\ head' = hb.head
           /\ body' = hb.body
    /\ conv_idx' = conv_idx + 1
    /\ UNCHANGED <<pipeVars, logVars, storeVars, rtVars, detVars>>
    /\ UNCHANGED <<boards, revision, boards_lock, rpc, rdata, rline, rtmp, nread, spc, rev_now,
                   now, last_rev, last_emit, emitted, sclock, published, lastPub, hist>>

(* the revision marked as emitted is the one current at the yield *)
S_YieldMarksLatest ==
    /\ spc = "convert"
    /\ conv_idx = Len(BOARDS)
    /\ last_rev' = revision
    /\ last_emit' = now
    /\ emitted' = [time |-> now, head |-> head, body |-> body, rev |-> rev_now]
    /\ spc' = "wait"
    /\ UNCHANGED <<pipeVars, logVars, storeVars, rtVars, detVars>>
    /\ UNCHANGED <<boards, revision, boards_lock, rpc, rdata, rline, rtmp, nread, rev_now, now,
                   conv_idx, head, body, sclock, published, lastPub, hist>>

(* last_rev = rev_now; last_emit = now; yield SerialSignal(now, head, body) *)
S_Yield ==
    /\ spc = "convert"
    /\ conv_idx = Len(BOARDS)
    /\ last_rev' = rev_now
    /\ last_emit' = now
    /\ emitted' = [time |-> now, head |-> head, body |-> body, rev |-> rev_now]
    /\ spc' = "wait"
    /\ UNCHANGED <<pipeVars, logVars, storeVars, rtVars, detVars>>
    /\ UNCHANGED <<boards, revision, boards_lock, rpc, rdata, rline, rtmp, nread, rev_now, now,
                   conv_idx, head, body, sclock, published, lastPub, hist>>

(* the wall clock advances *)
S_Tick ==
    /\ sclock < MaxClock
    /\ sclock' = sclock + 1
    /\ UNCHANGED <<pipeVars, logVars, storeVars, rtVars, detVars>>
    /\ UNCHANGED <<boards, revision, boards_lock, rpc, rdata, rline, rtmp, nread, spc, rev_now,
                   now, last_rev, last_emit, conv_idx, head, body, emitted, published,
                   lastPub, hist>>

-----------------------------------------------------------------------------
(* The number of boards of map bs that hold a reading. *)
Readings(bs) == Cardinality({b \in BoardSet : bs[b] # NoData})

(* Map bs when only the first k of its readings, in the order of BOARDS,   *)
(* had been published.                                                      *)
PublishedUpTo(bs, k) ==
    [b \in BoardSet |->
        IF Cardinality({i \in 1..Len(BOARDS) :
                          bs[BOARDS[i]] # NoData
                          /\ i <= (CHOOSE j \in 1..Len(BOARDS) : BOARDS[j] = b)}) <= k
        THEN bs[b] ELSE NoData]

(* stream() is entered on a board map bs that the reader threads have      *)
(* published, one reading per board.                                       *)
InitSerialWith(bs) ==
    /\ boards = bs
    /\ revision = Readings(bs)
    /\ boards_lock = Free
    /\ rpc = [p \in Ports |-> "read"]
    /\ rdata = [p \in Ports |-> NoData]
    /\ rline = [p \in Ports |-> NoLine]
    /\ rtmp = [p \in Ports |-> 0]
    /\ nread = 0
    /\ spc = "wait"
    /\ rev_now = 0
    /\ now = 0
    /\ last_rev = -1
    /\ last_emit = 0
    /\ conv_idx = 0
    /\ head = ZeroHead
    /\ body = ZeroBody
    /\ emitted = NoSignal
    /\ sclock = 0
    /\ published = Readings(bs)
    /\ lastPub = bs
    /\ hist = [k \in 1..(Readings(bs) + 1) |-> PublishedUpTo(bs, k - 1)]

(* SerialCommunication as constructed: no reading yet. *)
InitSerial == InitSerialWith(NoBoards)

(* The reading of `board' with the channel-value pairs of `pairs'. *)
ReadingWith(board, pairs) ==
    BoardData(board,
              [key \in {<<board, w[1]>> : w \in pairs} |->
                  (CHOOSE w \in pairs : w[1] = key[2])[2]])

(* Board maps for the conversion: the head board, the first and the last   *)
(* body board, each without a reading or with one of a few readings: with  *)
(* channels of both rows, a zero value, a negative value, no channel at    *)
(* all, and channels past the board's range.                               *)
Snapshots ==
    { [b \in BoardSet |->
          CASE b = "UNO0_" -> h
            [] b = "UNO1_" -> f
            [] b = "UNO6_" -> l
            [] OTHER -> NoData]
        : h \in { NoData,
                  ReadingWith("UNO0_", {<<0, 10>>, <<3, 20>>}),
                  ReadingWith("UNO0_", {<<2, 5>>, <<5, 6>>, <<6, 9>>}),
                  ReadingWith("UNO0_", {<<0, 0>>, <<1, 3>>}) },
          f \in { NoData,
                  ReadingWith("UNO1_", {<<0, 1>>, <<7, 2>>, <<13, 4>>}),
                  ReadingWith("UNO1_", {<<6, 7>>, <<14, 9>>}),
                  ReadingWith("UNO1_", {}) },
          l \in { NoData,
                  ReadingWith("UNO6_", {<<0, 3>>, <<13, 0>>}),
                  ReadingWith("UNO6_", {<<7, -2>>}) } }

NextSerial ==
    \/ \E p \in Ports : R_ReadLine(p)
    \/ \E p \in Ports : R_DecodeError(p)
    \/ \E p \in Ports : R_Acquire(p)
    \/ \E p \in Ports : R_Store(p)
    \/ \E p \in Ports : R_Inc(p)
    \/ \E p \in Ports : R_Release(p)
    \/ S_Wait
    \/ S_Convert
    \/ S_Yield
    \/ S_Tick

-----------------------------------------------------------------------------
(* SignalPipeline: process() feeds task_queue, _detector_worker turns each  *)
(* task into a result, stream() takes results, stop() ends the worker.      *)
(* A task is named by its submission number; it stands for the heatmap and  *)
(* the timestamp process() gave it.                                         *)

(* Bound: process() calls *)
MaxTasks == 3

NoTask == 0

(* a LifoQueue in place of the Queue *)
QueueGetNewest(q) == [item |-> q[Len(q)], rest |-> SubSeq(q, 1, Len(q) - 1)]

(* Queue.get on a non-empty queue: the oldest item *)
QueueGet(q) == [item |-> Head(q), rest |-> Tail(q)]

(* Queue(): maxsize = 0, no capacity *)
maxsize == 0

(* Queue.put blocks while 0 < maxsize <= qsize *)
QueueFull(q) == maxsize > 0 /\ Len(q) >= maxsize

(* process(signal): convert, heatmap_rt.sync, task_queue.put(task) *)
P_Process ==
    /\ nsubmitted < MaxTasks
    /\ ~QueueFull(task_queue)
    /\ nsubmitted' = nsubmitted + 1
    /\ task_queue' = Append(task_queue, nsubmitted + 1)
    /\ admitted_late' = (admitted_late \/ stop_event)
    /\ UNCHANGED <<result_queue, stop_event, wpc, wtask, stpc, pushed>>
    /\ UNCHANGED <<serialVars, logVars, storeVars, rtVars, detVars>>

(* `while not self.stop_event.is_set()` *)
W_CheckStop ==
    /\ wpc = "loop"
    /\ wpc' = IF stop_event THEN "exited" ELSE "get"
    /\ UNCHANGED <<task_queue, result_queue, stop_event, wtask, stpc, nsubmitted, pushed,
                   admitted_late>>
    /\ UNCHANGED <<serialVars, logVars, storeVars, rtVars, detVars>>

(* task = self.task_queue.get(timeout=0.1); Empty: continue *)
W_Get ==
    /\ wpc = "get"
    /\ IF task_queue = <<>>
       THEN /\ wpc' = "loop"
            /\ UNCHANGED <<task_queue, wtask>>
       ELSE /\ wtask' = QueueGet(task_queue).item
            /\ task_queue' = QueueGet(task_queue).rest
            /\ wpc' = "work"
    /\ UNCHANGED <<result_queue, stop_event, stpc, nsubmitted, pushed, admitted_late>>
    /\ UNCHANGED <<serialVars, logVars, storeVars, rtVars, detVars>>

(* detect, pressure_cache.log, result_queue.put(result): log returned synced *)
W_Finish ==
    /\ wpc = "work"
    /\ ~QueueFull(result_queue)
    /\ \E synced \in BOOLEAN :
         result_queue' = Append(result_queue, [task |-> wtask, synced |-> synced])
    /\ pushed' = Append(pushed, wtask)
    /\ wtask' = NoTask
    /\ wpc' = "loop"
    /\ UNCHANGED <<task_queue, stop_event, stpc, nsubmitted, admitted_late>>
    /\ UNCHANGED <<serialVars, logVars, storeVars, rtVars, detVars>>

(* an `except Exception' that leaves the loop *)
W_RaiseExits ==
    /\ wpc = "work"
    /\ wtask' = NoTask
    /\ wpc' = "exited"
    /\ UNCHANGED <<task_queue, result_queue, stop_event, stpc, nsubmitted, pushed, admitted_late>>
    /\ UNCHANGED <<serialVars, logVars, storeVars, rtVars, detVars>>

(* detect or pressure_cache.log raised: `except Exception: continue` *)
W_Raise ==
    /\ wpc = "work"
    /\ wtask' = NoTask
    /\ wpc' = "loop"
    /\ UNCHANGED <<task_queue, result_queue, stop_event, stpc, nsubmitted, pushed, admitted_late>>
    /\ UNCHANGED <<serialVars, logVars, storeVars, rtVars, detVars>>

(* stream(): result = self.result_queue.get(timeout=0.1); yield *)
C_Take ==
    /\ result_queue # <<>>
    /\ result_queue' = QueueGet(result_queue).rest
    /\ UNCHANGED <<task_queue, stop_event, wpc, wtask, stpc, nsubmitted, pushed, admitted_late>>
    /\ UNCHANGED <<serialVars, logVars, storeVars, rtVars, detVars>>

(* stop(): self.stop_event.set() *)
St_Set ==
    /\ stpc = "idle"
    /\ stop_event' = TRUE
    /\ stpc' = "join"
    /\ UNCHANGED <<task_queue, result_queue, wpc, wtask, nsubmitted, pushed, admitted_late>>
    /\ UNCHANGED <<serialVars, logVars, storeVars, rtVars, detVars>>

(* self.detector_thread.join(timeout=2.0): the worker ended, or the timeout did *)
St_Join ==
    /\ stpc = "join"
    /\ stpc' = "drain_tasks"
    /\ UNCHANGED <<task_queue, result_queue, stop_event, wpc, wtask, nsubmitted, pushed,
                   admitted_late>>
    /\ UNCHANGED <<serialVars, logVars, storeVars, rtVars, detVars>>

(* while not self.task_queue.empty(): self.task_queue.get_nowait() *)
St_DrainTasks ==
    /\ stpc = "drain_tasks"
    /\ IF task_queue = <<>>
       THEN /\ stpc' = "drain_results"
            /\ UNCHANGED task_queue
       ELSE /\ task_queue' = QueueGet(task_queue).rest
            /\ UNCHANGED stpc
    /\ UNCHANGED <<result_queue, stop_event, wpc, wtask, nsubmitted, pushed, admitted_late>>
    /\ UNCHANGED <<serialVars, logVars, storeVars, rtVars, detVars>>

(* while not self.result_queue.empty(): self.result_queue.get_nowait() *)
St_DrainResults ==
    /\ stpc = "drain_results"
    /\ IF result_queue = <<>>
       THEN /\ stpc' = "stopped"
            /\ UNCHANGED result_queue
       ELSE /\ result_queue' = QueueGet(result_queue).rest
            /\ UNCHANGED stpc
    /\ UNCHANGED <<task_queue, stop_event, wpc, wtask, nsubmitted, pushed, admitted_late>>
    /\ UNCHANGED <<serialVars, logVars, storeVars, rtVars, detVars>>

InitPipeline ==
    /\ task_queue = <<>>
    /\ result_queue = <<>>
    /\ stop_event = FALSE
    /\ wpc = "loop"
    /\ wtask = NoTask
    /\ stpc = "idle"
    /\ nsubmitted = 0
    /\ pushed = <<>>
    /\ admitted_late = FALSE

NextPipeline ==
    \/ P_Process
    \/ W_CheckStop
    \/ W_Get
    \/ W_Finish
    \/ W_Raise
    \/ C_Take
    \/ St_Set
    \/ St_Join
    \/ St_DrainTasks
    \/ St_DrainResults

-----------------------------------------------------------------------------
(* PostureDetector (service/detection/posture_detection.py): detect() as   *)
(* the worker calls it for each task.                                      *)

(* predictor.predict(scaled)[0]: the class index and the four raw flags *)
ClassIndexes == {-1, 0, 1, 2, 3, 4, 5, 6}

Predictions ==
    [posture : ClassIndexes, upper_body : BOOLEAN, right_leg : BOOLEAN,
     left_leg : BOOLEAN, feet : BOOLEAN]

(* models/scaler.pkl and models/posture.pkl when detect() looks for them:  *)
(* one of them is not there, load() raises on the first or on the second,  *)
(* or both load.                                                           *)
Artifacts == {"missing", "scaler_unloadable", "predictor_unloadable", "loadable"}

(* PostureDetectionResult(type, occiput, scapula, right_elbow, left_elbow, *)
(*                        hip, right_heel, left_heel)                      *)
PostureDetectionResult(type, occiput, scapula, right_elbow, left_elbow, hip, right_heel, left_heel) ==
    [type |-> type, occiput |-> occiput, scapula |-> scapula,
     right_elbow |-> right_elbow, left_elbow |-> left_elbow, hip |-> hip,
     right_heel |-> right_heel, left_heel |-> left_heel]

UnknownResult ==
    PostureDetectionResult("UNKNOWN", FALSE, FALSE, FALSE, FALSE, FALSE, FALSE, FALSE)

(* the exception that left detect() *)
Raised == [raised |-> TRUE]

NoPrediction == [none |-> TRUE]

NoDetection ==
    [task |-> NoTask, artifact |-> "none", loaded |-> FALSE,
     prediction |-> NoPrediction, result |-> [none |-> TRUE]]

(* _load_models on st = [scaler, predictor]: what it returns (`ok'), or    *)
(* that load() raised, and the class attributes it leaves.                 *)
_load_models(st, artifact) ==
    IF st.scaler /\ st.predictor
    THEN [ok |-> TRUE, raised |-> FALSE, scaler |-> TRUE, predictor |-> TRUE]
    ELSE IF artifact = "missing"
    THEN [ok |-> FALSE, raised |-> FALSE, scaler |-> st.scaler, predictor |-> st.predictor]
    ELSE IF artifact = "scaler_unloadable"
    THEN [ok |-> FALSE, raised |-> TRUE, scaler |-> st.scaler, predictor |-> st.predictor]
    ELSE IF artifact = "predictor_unloadable"
    THEN [ok |-> FALSE, raised |-> TRUE, scaler |-> TRUE, predictor |-> st.predictor]
    ELSE [ok |-> TRUE, raised |-> FALSE, scaler |-> TRUE, predictor |-> TRUE]

(* both heels and the class left as `case 0' first sets them *)
SupineHeelsKept(result, right_leg, left_leg) == result

(* the if / elif chain of `case 0' on the leg flags *)
SupineHeels(result, right_leg, left_leg) ==
    IF left_leg /\ right_leg
    THEN [result EXCEPT !.left_heel = TRUE, !.right_heel = TRUE, !.type = "SUPINE"]
    ELSE IF left_leg
    THEN [result EXCEPT !.right_heel = FALSE, !.type = "SUPINE_RIGHT"]
    ELSE IF right_leg
    THEN [result EXCEPT !.left_heel = FALSE, !.type = "SUPINE_LEFT"]
    ELSE [result EXCEPT !.left_heel = FALSE, !.right_heel = FALSE, !.type = "SUPINE_BOTH"]

(* the `match posture' of detect() on one prediction *)
MatchPosture(prediction) ==
    LET result == UnknownResult
    IN  CASE prediction.posture = 0 ->
               SupineHeels([result EXCEPT !.type = "SUPINE", !.occiput = TRUE,
                                          !.scapula = TRUE, !.hip = TRUE,
                                          !.left_heel = TRUE, !.right_heel = TRUE,
                                          !.left_elbow = TRUE, !.right_elbow = TRUE],
                           prediction.right_leg, prediction.left_leg)
          [] prediction.posture = 1 ->
               [result EXCEPT !.type = "LEFT_SIDE", !.left_elbow = TRUE, !.left_heel = TRUE]
          [] prediction.posture = 2 ->
               [result EXCEPT !.type = "RIGHT_SIDE", !.right_elbow = TRUE,
                              !.right_heel = TRUE]
          [] prediction.posture = 3 -> [result EXCEPT !.type = "PRONE"]
          [] prediction.posture = 5 -> [result EXCEPT !.type = "SITTING", !.hip = TRUE]
          [] OTHER -> result

(* detect(map): the result (or Raised) and the class attributes after it *)
detect(st, artifact, prediction) ==
    LET load == _load_models(st, artifact)
    IN  [result |-> IF load.raised THEN Raised
                    ELSE IF ~load.ok THEN UnknownResult
                    ELSE MatchPosture(prediction),
         scaler |-> load.scaler, predictor |-> load.predictor]

(* The files are looked for only while a model is not loaded, and the      *)
(* classifier is asked only once both are.                                 *)
ArtifactChoices(loaded) == IF loaded THEN {"unused"} ELSE Artifacts

PredictionChoices(asked) == IF asked THEN Predictions ELSE {NoPrediction}

(* posture_type = self.posture_detector.detect(task.heatmap); an exception *)
(* is caught by the worker's `except Exception: continue`.                 *)
W_Detect ==
    /\ wpc = "work"
    /\ detected.task # wtask
    /\ \E artifact \in ArtifactChoices(scaler /\ predictor) :
       \E prediction \in PredictionChoices((scaler /\ predictor) \/ artifact = "loadable") :
         LET d == detect([scaler |-> scaler, predictor |-> predictor], artifact, prediction)
         IN  /\ scaler' = d.scaler
             /\ predictor' = d.predictor
             /\ detected' = [task |-> wtask, artifact |-> artifact,
                             loaded |-> scaler /\ predictor,
                             prediction |-> prediction, result |-> d.result]
             /\ IF d.result = Raised
                THEN /\ wtask' = NoTask
                     /\ wpc' = "loop"
                ELSE UNCHANGED <<wtask, wpc>>
    /\ UNCHANGED <<task_queue, result_queue, stop_event, stpc, nsubmitted, pushed, admitted_late>>
    /\ UNCHANGED <<serialVars, logVars, storeVars, rtVars>>

(* pressure_cache.log and result_queue.put for the task just classified *)
W_FinishDetected == detected.task = wtask /\ W_Finish

(* pressure_cache.log raised for the task just classified *)
W_RaiseLogging == detected.task = wtask /\ W_Raise

InitDetect ==
    /\ scaler = FALSE
    /\ predictor = FALSE
    /\ detected = NoDetection

(* The worker with the posture detection spelled out. *)
NextDetect ==
    \/ P_Process
    \/ W_CheckStop
    \/ W_Get
    \/ W_Detect
    \/ W_FinishDetected
    \/ W_RaiseLogging
    \/ C_Take

-----------------------------------------------------------------------------
(***************************************************************************)
(* service/pressure_logger/pressure_logger.py                              *)
(*                                                                         *)
(* Time is counted in ticks of 1/TicksPerSec second, so that the           *)
(* truncation int(total_seconds()) is a real division.  The worker thread  *)
(* is the only caller of log(), so one call is one step.  A call is given  *)
(* the task's timestamp; datetime.now() inside the call is that timestamp  *)
(* plus the time the task waited in the queue (lag).                       *)
(*                                                                         *)
(* DayCache and PressureCache records carry the five regions that          *)
(* pressure_logger.py reads and writes (occiput, scapula, elbow, heel,     *)
(* hip); a cache file holds the DayCache that was last saved for its day.  *)
(***************************************************************************)
MaxObs == 3

TicksPerSec == 2

SecsPerDay == 86400

TicksPerDay == SecsPerDay * TicksPerSec

\* Observations are spaced a tick, a second or a minute apart.
Deltas == {1, TicksPerSec, 60 * TicksPerSec}

\* A task is logged at once, or after two seconds in the queue.
Lags == {0, 2 * TicksPerSec}

\* The logger is constructed at 23:58:58 of day 1.
StartClock == 2 * TicksPerDay - 62 * TicksPerSec

Regions == {"occiput", "scapula", "elbow", "heel", "hip"}

ZeroSec == [r \in Regions |-> 0]

NoCache == [none |-> TRUE]

NoLog == [none |-> TRUE]

\* datetime.date()
DateOf(t) == t \div TicksPerDay

\* int(timedelta.total_seconds()) for a non-negative difference of ticks
TotalSecondsInt(ticks) == ticks \div TicksPerSec

DefaultThreshold == 50

RefreshIntervalDefault == 60

RefreshIntervalHasty == RefreshIntervalDefault

RefreshIntervalPatient == 600

\* What detection hands to log(): the posture class and the flagged regions.
SamplePostures ==
    { [type |-> "SUPINE",    flags |-> {"occiput", "scapula", "elbow", "heel", "hip"}],
      [type |-> "SUPINE",    flags |-> {"occiput", "hip"}],
      [type |-> "LEFT_SIDE", flags |-> {"elbow", "heel"}] }

\* Patient rows: the per-region thresholds, in minutes.
SamplePatients == { [r \in Regions |-> 1] }

\* api.fetch_patient_with_device: raises, returns None, or returns a patient.
FetchOutcomes ==
    {[kind |-> "raise"], [kind |-> "none"]}
        \cup {[kind |-> "patient", minutes |-> m] : m \in SamplePatients}

Max0(a) == IF a > 0 THEN a ELSE 0

_threshold_from_patient(minutes) == [r \in Regions |-> Max0(minutes[r] * 60)]

AllClear == [r \in Regions |-> FALSE]

\* _refresh_threshold_from_server, on the threshold part of the state
\*   st = [threshold, has_patient, loaded_at, sent]; `fetched' and `reset'
\* report whether the patient was fetched and whether the flags were reset.
_refresh_threshold_from_server(st, force, wall, fetch) ==
    LET interval == IF st.has_patient THEN RefreshIntervalPatient
                                      ELSE RefreshIntervalDefault
        skip == /\ ~force
                /\ (wall - st.loaded_at) < interval * TicksPerSec
    IN  IF skip THEN st
        ELSE IF fetch.kind = "raise"
        THEN [st EXCEPT !.loaded_at = wall]
        ELSE IF fetch.kind = "none"
        THEN [st EXCEPT !.has_patient = FALSE, !.loaded_at = wall]
        ELSE LET new == _threshold_from_patient(fetch.minutes)
             IN  [threshold   |-> new,
                  has_patient |-> TRUE,
                  loaded_at   |-> wall,
                  sent        |-> IF st.threshold # new THEN AllClear ELSE st.sent,
                  reset       |-> st.reset \/ st.threshold # new]

\* Whether the non-forced refresh consults the server at all.
RefreshDue(st, wall) ==
    LET interval == IF st.has_patient THEN RefreshIntervalPatient
                                      ELSE RefreshIntervalDefault
    IN  (wall - st.loaded_at) >= interval * TicksPerSec

FetchChoices(needed) == IF needed THEN FetchOutcomes ELSE {[kind |-> "unused"]}

\* DayCache(int(date.strftime('%Y%m%d')), date, 0, 0, 0, 0, 0, [], True)
FreshDayCache(d) ==
    [id |-> d, date |-> d, acc |-> ZeroSec, logs |-> <<>>, is_new |-> TRUE]

_is_daycache_exist(fs, d) == d \in DOMAIN fs

_open_daycache(fs, d) == IF _is_daycache_exist(fs, d) THEN fs[d] ELSE FreshDayCache(d)

\* The file of daycache.date is rewritten; the in-memory copy follows only
\* when that date is today's by the wall clock.
_save_daycache(fs, mem, daycache, wall) ==
    [files |-> [d \in DOMAIN fs \cup {daycache.date} |->
                    IF d = daycache.date THEN daycache ELSE fs[d]],
     mem   |-> IF daycache.date = DateOf(wall) THEN daycache ELSE mem]

MaxOf(S) == CHOOSE x \in S : \A y \in S : y <= x

\* _get_last_pressure_log: (index, entry) of the latest entry on or before
\* `date', and the in-memory copy it leaves behind.  idx counts from 1.
_get_last_pressure_log(fs, mem, date, wall) ==
    IF mem # NoCache /\ mem.date = date /\ mem.logs # <<>>
    THEN [idx |-> Len(mem.logs), log |-> mem.logs[Len(mem.logs)], mem |-> mem]
    ELSE IF DOMAIN fs = {}
    THEN [idx |-> 0, log |-> NoLog, mem |-> mem]
    ELSE IF _is_daycache_exist(fs, date) /\ _open_daycache(fs, date).logs # <<>>
    THEN LET dc == _open_daycache(fs, date)
         IN  [idx |-> Len(dc.logs), log |-> dc.logs[Len(dc.logs)],
              mem |-> IF date = DateOf(wall) THEN dc ELSE mem]
    ELSE LET older == {d \in DOMAIN fs : d <= date /\ fs[d].logs # <<>>}
         IN  IF older = {}
             THEN [idx |-> 0, log |-> NoLog, mem |-> mem]
             ELSE LET dc == _open_daycache(fs, MaxOf(older))
                  IN  [idx |-> Len(dc.logs), log |-> dc.logs[Len(dc.logs)],
                       mem |-> IF dc.date = DateOf(wall) THEN dc ELSE mem]

IdStride == 1000000

\* int(timestamp.strftime('%Y%m%d%H%M%S')): the date, then HHMMSS in decimal.
StampId(t) ==
    LET secs == (t % TicksPerDay) \div TicksPerSec
    IN  DateOf(t) * IdStride
          + (secs \div 3600) * 10000 + ((secs \div 60) % 60) * 100 + (secs % 60)

RECURSIVE FirstFreeId(_, _)
FirstFreeId(candidate, existing_ids) ==
    IF candidate \in existing_ids THEN FirstFreeId(candidate + 1, existing_ids)
    ELSE candidate

\* the timestamp id taken as it is
StampIdOnly(t, existing_ids) == StampId(t)

\* base_id, or the first id from it on that no entry of the day holds
_generate_pressure_log_id(t, existing_ids) == FirstFreeId(StampId(t), existing_ids)

\* pressure_log.<region> += accumulated_time for the flagged regions
Credit(sec, flags, accumulated_time) ==
    [r \in Regions |-> sec[r] + (IF r \in flags THEN accumulated_time ELSE 0)]

ReuseAcrossDays(last_log, time, posture) ==
    last_log # NoLog /\ last_log.posture = posture.type

\* reuse_existing_entry: the observation continues the session of last_log
ReuseExistingEntry(last_log, time, posture) ==
    LET is_same_day     == last_log # NoLog /\ DateOf(last_log.time) = DateOf(time)
        is_same_posture == last_log # NoLog /\ last_log.posture = posture.type
    IN  last_log # NoLog /\ is_same_day /\ is_same_posture

\* _log_locally up to and including _save_daycache.  `raised' is the
\* IndexError of logs[last_log_idx] when the index is past the list.
LogLocallyResult(fs, mem, time, wall, posture) ==
    LET last     == _get_last_pressure_log(fs, mem, DateOf(time), wall)
        last_log == last.log
        day_cache == _open_daycache(fs, DateOf(time))
        reuse_existing_entry == ReuseExistingEntry(last_log, time, posture)
        accumulated_time ==
            IF reuse_existing_entry THEN TotalSecondsInt(time - last_log.time) ELSE 0
        base ==
            IF reuse_existing_entry
            THEN [id |-> last_log.id, time |-> time, created_at |-> last_log.created_at,
                  sec |-> last_log.sec, posture |-> posture.type]
            ELSE [id |-> _generate_pressure_log_id(time,
                            {day_cache.logs[i].id : i \in 1..Len(day_cache.logs)}),
                  time |-> time, created_at |-> time,
                  sec |-> ZeroSec, posture |-> posture.type]
        pressure_log == [base EXCEPT !.sec = Credit(base.sec, posture.flags, accumulated_time)]
        is_day_changed == last_log = NoLog \/ DateOf(last_log.time) # DateOf(time)
        acc == IF accumulated_time > 0 /\ ~is_day_changed
               THEN Credit(day_cache.acc, posture.flags, accumulated_time)
               ELSE day_cache.acc
        appended == ~reuse_existing_entry \/ is_day_changed
        raised   == ~appended /\ last.idx > Len(day_cache.logs)
        logs == IF appended THEN Append(day_cache.logs, pressure_log)
                ELSE IF raised THEN day_cache.logs
                ELSE [day_cache.logs EXCEPT ![last.idx] = pressure_log]
        new_cache == [day_cache EXCEPT !.acc = acc, !.logs = logs]
        saved == IF raised THEN [files |-> fs, mem |-> last.mem]
                 ELSE _save_daycache(fs, last.mem, new_cache, wall)
    IN  [files |-> saved.files, mem |-> saved.mem, day_cache |-> new_cache,
         pressure_log |-> pressure_log, is_day_changed |-> is_day_changed,
         needs_creation |-> appended, raised |-> raised, idx |-> last.idx]

\* What the reads of the file of day d return during one observation: its
\* content ("read"), or, when open() or json.load raises ("unreadable"),
\* the fresh DayCache that _open_daycache puts in its place.
ReadAs(read, fs, d) ==
    IF read = "unreadable" /\ _is_daycache_exist(fs, d)
    THEN [fs EXCEPT ![d] = FreshDayCache(d)]
    ELSE fs

\* _log_locally on the files as the observation reads them; when it raises
\* before _save_daycache the files stay as they are, and so they do when
\* open(filepath, 'w') raises in _save_daycache ("unwritable"): the IOError
\* is logged and the in-memory copy, set before the write, is kept.
LogLocallyReading(read, fs, mem, time, wall, posture) ==
    LET loc == LogLocallyResult(ReadAs(read, fs, DateOf(time)), mem, time, wall, posture)
    IN  IF loc.raised \/ read = "unwritable" THEN [loc EXCEPT !.files = fs] ELSE loc

\* _trigger_notifications: the regions that newly qualify.
NotifySet(st, pressure_log) ==
    IF ~st.has_patient THEN {}
    ELSE {r \in Regions : pressure_log.sec[r] >= st.threshold[r] /\ ~st.sent[r]}

\* NotificationManager._send: the message reaches the messaging service
\* ("sent"), the Firebase app was never initialised and nothing is sent
\* ("not_initialized"), or messaging.send raises ("raise").
SendCourses == {"sent", "not_initialized", "raise"}

SendChoices(requested) == IF requested THEN SendCourses ELSE {"unused"}

\* NotificationManager.send_notification has no return statement: the call
\* evaluates to None unless the exception of messaging.send leaves it.
send_notification(course) ==
    IF course \in {"raise", "unused"} THEN course ELSE "None"

TruthyAlways(v) == TRUE

\* `if not sent: return'
Truthy(v) == v \notin {"None", "False", "raise", "unused"}

\* the flags after _trigger_notifications
MarkSent(flags, notify, result) ==
    IF Truthy(result) THEN [r \in Regions |-> flags[r] \/ r \in notify] ELSE flags

\* Replies of the ServerAPI wrappers: the hydrated row ("ok"), the payload
\* object itself ("same"), None ("none"), or an exception ("raise").
DayLogOps == {"create_daylog", "update_daylog"}

PressureLogOps == {"create_pressurelog", "update_pressurelog"}

CreateDayLogOutcomes == {"ok", "same", "raise"}

UpdateOutcomes == {"ok", "same", "none", "raise"}

CreatePressureLogOutcomes == {"ok", "same", "none", "raise"}

\* A remote call as the sync step saw it: the reply, and what the caller
\* makes of it: the row went through ("ok"), the row is missing on the
\* server ("missing"), or the call failed ("failed").
Call(op, out, verdict) == [op |-> op, out |-> out, verdict |-> verdict]

LandedOrSame(out) == out \in {"ok", "same"}

\* `if not response or response is payload' / an exception
Landed(out) == out = "ok"

Verdict(out) == IF Landed(out) THEN "ok" ELSE "failed"

DayLogPhaseNoFallback(is_new) ==
    IF is_new
    THEN { [calls |-> <<Call("create_daylog", c, Verdict(c))>>,
            ok |-> Landed(c), created |-> Landed(c)] : c \in CreateDayLogOutcomes }
    ELSE { [calls |-> <<Call("update_daylog", u, IF u = "same" THEN "missing" ELSE Verdict(u))>>,
            ok |-> Landed(u), created |-> FALSE] : u \in UpdateOutcomes }

\* Day-log phase of _upload_to_server: the calls made, whether the phase
\* went through, and created_daylog.
DayLogPhase(is_new) ==
    IF is_new
    THEN { [calls |-> <<Call("create_daylog", c, Verdict(c))>>,
            ok |-> Landed(c), created |-> Landed(c)] : c \in CreateDayLogOutcomes }
    ELSE { [calls |-> <<Call("update_daylog", u, Verdict(u))>>,
            ok |-> Landed(u), created |-> FALSE] : u \in UpdateOutcomes \ {"same"} }
         \cup
         { [calls |-> <<Call("update_daylog", "same", "missing"),
                        Call("create_daylog", c, Verdict(c))>>,
            ok |-> Landed(c), created |-> Landed(c)] : c \in CreateDayLogOutcomes }

PressureLogPhaseCreateOnly(created_new_log) ==
    { [calls |-> <<Call("create_pressurelog", c, Verdict(c))>>, ok |-> Landed(c)]
        : c \in CreatePressureLogOutcomes }

\* Pressure-log phase: create for a new entry, else update with a create
\* fallback when the update returned nothing or the payload itself.
PressureLogPhase(created_new_log) ==
    IF created_new_log
    THEN { [calls |-> <<Call("create_pressurelog", c, Verdict(c))>>, ok |-> Landed(c)]
             : c \in CreatePressureLogOutcomes }
    ELSE { [calls |-> <<Call("update_pressurelog", u, Verdict(u))>>, ok |-> Landed(u)]
             : u \in {"ok", "raise"} }
         \cup
         { [calls |-> <<Call("update_pressurelog", u, "missing"),
                        Call("create_pressurelog", c, Verdict(c))>>,
            ok |-> Landed(c)] : u \in {"same", "none"}, c \in CreatePressureLogOutcomes }

KeepIsNew(daycache, created) == daycache

\* `if created_daylog and daycache.is_new: daycache.is_new = False', the
\* DayCache that _save_daycache then persists.
DropIsNew(daycache, created) ==
    IF created /\ daycache.is_new THEN [daycache EXCEPT !.is_new = FALSE] ELSE daycache

\* _upload_to_server: every course the call can take, as the calls made,
\* whether the day-log step went through, the value returned and the
\* DayCache it leaves persisted.
_upload_to_server(daycache, created_new_log) ==
    IF daycache.logs = <<>>
    THEN {[calls |-> <<>>, day_ok |-> FALSE, result |-> FALSE, daycache |-> daycache]}
    ELSE { [calls |-> d.calls, day_ok |-> FALSE, result |-> FALSE,
            daycache |-> DropIsNew(daycache, d.created)]
             : d \in {x \in DayLogPhase(daycache.is_new) : ~x.ok} }
         \cup
         { [calls |-> d.calls \o q.calls, day_ok |-> TRUE, result |-> q.ok,
            daycache |-> DropIsNew(daycache, d.created)]
             : d \in {x \in DayLogPhase(daycache.is_new) : x.ok},
               q \in PressureLogPhase(created_new_log) }

Min2(a) == IF a > 2 THEN 2 ELSE a

BrokenStream == [n |-> 0, ok |-> FALSE, dt |-> 0, type |-> "NONE", always |-> {}, ever |-> {}]

\* The observations so far as one stream: their number, their common
\* spacing, their posture class and the regions flagged in all / in some of
\* them; BrokenStream once the day, the class or the spacing has changed.
ExtendStream(st, prevTime, time, posture) ==
    LET dt == time - prevTime
    IN  IF ~st.ok THEN BrokenStream
        ELSE IF st.n = 0
        THEN [n |-> 1, ok |-> TRUE, dt |-> 0, type |-> posture.type,
              always |-> posture.flags, ever |-> posture.flags]
        ELSE IF \/ DateOf(time) # DateOf(prevTime)
                \/ posture.type # st.type
                \/ (st.n >= 2 /\ dt # st.dt)
        THEN BrokenStream
        ELSE [n |-> st.n + 1, ok |-> TRUE, dt |-> dt, type |-> st.type,
              always |-> st.always \cap posture.flags,
              ever   |-> st.ever \cup posture.flags]

NoPosture == [type |-> "NONE", flags |-> {}]

\* The record of a call of log() that has not yet done anything.
NoObs(n) ==
    [n |-> n, posture |-> NoPosture, appended |-> FALSE, raised |-> FALSE,
     reset |-> FALSE, notify |-> {}, send |-> "unused", returned |-> "unused",
     uploaded |-> FALSE,
     calls |-> <<>>, day_ok |-> FALSE, result |-> FALSE]

\* PressureLogger.log, first half: _log_locally(time, heatmap, posture).
\* An exception of the local part leaves log() at once.
LogLocallyFrom(DeltaSet, LagSet, PostureSet, FetchKinds, ReadCourses) ==
    /\ lpc = "idle"
    /\ obs.n < MaxObs
    /\ \E dt \in DeltaSet, lg \in LagSet, posture \in PostureSet, read \in ReadCourses :
        LET time == clock + dt
            wall == time + lg
            st0  == [threshold |-> threshold, has_patient |-> has_patient,
                     loaded_at |-> loaded_at, sent |-> sent, reset |-> FALSE]
        IN  /\ wall >= clock + lag
            /\ \E f1 \in {f \in FetchChoices(RefreshDue(st0, wall)) : f.kind \in FetchKinds} :
               \E st1 \in {_refresh_threshold_from_server(st0, FALSE, wall, f1)} :
               \E loc \in {LogLocallyReading(read, files, last_day_cache, time, wall, posture)} :
               \E f2 \in {f \in FetchChoices(loc.is_day_changed) : f.kind \in FetchKinds} :
               \E st2 \in {IF loc.is_day_changed
                           THEN [_refresh_threshold_from_server(st1, TRUE, wall, f2)
                                    EXCEPT !.sent = AllClear, !.reset = TRUE]
                           ELSE st1} :
               \E notify \in {IF loc.raised THEN {} ELSE NotifySet(st2, loc.pressure_log)} :
               \E send \in SendChoices(notify # {}) :
               \E returned \in {send_notification(send)} :
               \E local_raise \in {loc.raised \/ returned = "raise"} :
                    /\ files' = loc.files
                    /\ last_day_cache' = loc.mem
                    /\ threshold' = st2.threshold
                    /\ has_patient' = st2.has_patient
                    /\ loaded_at' = st2.loaded_at
                    /\ sent' = MarkSent(st2.sent, notify, returned)
                    /\ clock' = time
                    /\ lag' = lg
                    /\ lpc' = IF local_raise THEN "return" ELSE "upload"
                    /\ obs' = [NoObs(obs.n + 1) EXCEPT
                                 !.posture = posture, !.appended = loc.needs_creation,
                                 !.raised = local_raise, !.reset = st2.reset,
                                 !.notify = notify, !.send = send,
                                 !.returned = returned]
                    /\ stream' = ExtendStream(stream, clock, time, posture)
                    /\ triggered' = [r \in Regions |->
                          Min2((IF st2.reset THEN 0 ELSE triggered[r])
                               + (IF r \in notify THEN 1 ELSE 0))]
                    /\ all_sent' = /\ (st2.reset \/ all_sent)
                                    /\ (notify = {} \/ send = "sent")
    /\ UNCHANGED <<serialVars, pipeVars, storeVars, rtVars, detVars>>

FetchKindsAll == {"unused", "raise", "none", "patient"}

LogLocally == LogLocallyFrom(Deltas, Lags, SamplePostures, FetchKindsAll, {"read"})

\* PressureLogger.log, second half: _upload_to_server(daycache, pressure_cache,
\* created_new_log) on the DayCache that _log_locally has just saved.
\* `up' is the course the call takes.
UploadCourse(daycache, up) ==
    /\ \E saved \in {IF up.daycache # daycache
                     THEN _save_daycache(files, last_day_cache, up.daycache, clock + lag)
                     ELSE [files |-> files, mem |-> last_day_cache]} :
            /\ files' = saved.files
            /\ last_day_cache' = saved.mem
            /\ obs' = [obs EXCEPT !.uploaded = TRUE, !.calls = up.calls,
                                  !.day_ok = up.day_ok, !.result = up.result]
            /\ lpc' = "return"
    /\ UNCHANGED <<threshold, has_patient, loaded_at, sent, clock, lag, stream,
                   triggered, all_sent>>
    /\ UNCHANGED <<serialVars, pipeVars, rtVars, detVars>>

\* The sync step against a store of which nothing is assumed: every reply
\* of every call is possible.
UploadToServer ==
    /\ lpc = "upload"
    /\ \E daycache \in {files[DateOf(clock)]} :
       \E up \in _upload_to_server(daycache, obs.appended) :
            UploadCourse(daycache, up)
    /\ UNCHANGED storeVars

\* log() returns (or raises) to the worker, which takes the next task.
LogReturn ==
    /\ lpc = "return"
    /\ lpc' = "idle"
    /\ obs' = NoObs(obs.n)
    /\ UNCHANGED <<files, last_day_cache, threshold, has_patient, loaded_at, sent,
                   clock, lag, stream, triggered, all_sent>>
    /\ UNCHANGED <<serialVars, pipeVars, storeVars, rtVars, detVars>>

\* PressureLogger.__init__: empty cache directory, default thresholds, then
\* the forced threshold refresh.
\* `f' is the reply to the constructor's fetch.
InitLoggerWith(f) ==
    /\ files = << >>
    /\ last_day_cache = NoCache
    /\ clock = StartClock
    /\ lag = 0
    /\ lpc = "idle"
    /\ LET st == _refresh_threshold_from_server(
                      [threshold |-> [r \in Regions |-> DefaultThreshold],
                       has_patient |-> FALSE, loaded_at |-> StartClock,
                       sent |-> AllClear, reset |-> FALSE],
                      TRUE, StartClock, f)
       IN  /\ threshold = st.threshold
           /\ has_patient = st.has_patient
           /\ loaded_at = st.loaded_at
           /\ sent = st.sent
    /\ obs = NoObs(0)
    /\ stream = [n |-> 0, ok |-> TRUE, dt |-> 0, type |-> "NONE", always |-> {}, ever |-> {}]
    /\ triggered = [r \in Regions |-> 0]
    /\ all_sent = TRUE

InitLogger == \E f \in FetchOutcomes : InitLoggerWith(f)

NextLogger ==
    \/ LogLocally
    \/ UploadToServer
    \/ LogReturn

\* ---------------------------------------------------------------------
\* The remote store (Supabase tables day_logs and pressure_logs) as
\* ServerAPI sees it, with one outage.

LogsOf(fs, d) == _open_daycache(fs, d).logs

\* The entry this observation wrote (timestamps are distinct).
WrittenEntry(fs, t) ==
    LET logs == LogsOf(fs, DateOf(t))
    IN  logs[CHOOSE i \in 1..Len(logs) : logs[i].time = t]

EmptyStore == [days |-> {}, logs |-> {}]

RowOf(entry) == [id |-> entry.id, sec |-> entry.sec]

HasRow(store, id) == \E l \in store.logs : l.id = id

\* The reply of a wrapper while the store answers: insert fails on an
\* existing id (the wrapper's except branch), update of an absent id
\* returns no data (the wrapper hands the payload back).
ReplyOf(op, store, day, entry) ==
    CASE op = "create_daylog"      -> IF day \in store.days THEN "same" ELSE "ok"
      [] op = "update_daylog"      -> IF day \in store.days THEN "ok" ELSE "same"
      [] op = "create_pressurelog" -> IF HasRow(store, entry.id) THEN "none" ELSE "ok"
      [] op = "update_pressurelog" -> IF HasRow(store, entry.id) THEN "ok" ELSE "same"

\* The reply of a wrapper while the store is unreachable: its except branch.
ReplyWhileDown(op) == IF op = "create_daylog" THEN "same" ELSE "none"

\* The tables after a call that went through.
Stored(op, store, day, entry) ==
    CASE op \in DayLogOps -> [store EXCEPT !.days = @ \cup {day}]
      [] op \in PressureLogOps ->
            [store EXCEPT !.logs = {l \in @ : l.id # entry.id} \cup {RowOf(entry)}]

\* The tables after the given calls, if the replies recorded in them are
\* the ones this store gives; no table otherwise.
RECURSIVE ServedBy(_, _, _, _, _)
ServedBy(calls, store, reachable, day, entry) ==
    IF calls = <<>> THEN {store}
    ELSE LET c == Head(calls)
         IN  IF ~reachable
             THEN IF c.out = ReplyWhileDown(c.op)
                  THEN ServedBy(Tail(calls), store, reachable, day, entry)
                  ELSE {}
             ELSE IF c.out = ReplyOf(c.op, store, day, entry)
                  THEN ServedBy(Tail(calls),
                                IF c.out = "ok" THEN Stored(c.op, store, day, entry)
                                ELSE store,
                                reachable, day, entry)
                  ELSE {}

\* The sync step against this store.
UploadToStore ==
    /\ lpc = "upload"
    /\ \E daycache \in {files[DateOf(clock)]} :
       \E up \in _upload_to_server(daycache, obs.appended) :
       \E store \in ServedBy(up.calls, [days |-> day_logs, logs |-> pressure_logs],
                              outage # "down", daycache.id, WrittenEntry(files, clock)) :
            /\ UploadCourse(daycache, up)
            /\ day_logs' = store.days
            /\ pressure_logs' = store.logs
    /\ UNCHANGED outage

\* The observations of the outage specification: no patient is configured
\* for the device and the worker keeps up with the stream.
LogLocallyOnTime == LogLocallyFrom(Deltas, {0}, SamplePostures, {"unused", "none"}, {"read"})

StoreGoesDown ==
    /\ outage = "before"
    /\ outage' = "down"
    /\ UNCHANGED <<serialVars, pipeVars, logVars, rtVars, detVars, day_logs, pressure_logs>>

StoreComesBack ==
    /\ outage = "down"
    /\ outage' = "after"
    /\ UNCHANGED <<serialVars, pipeVars, logVars, rtVars, detVars, day_logs, pressure_logs>>

InitStore ==
    /\ outage = "before"
    /\ day_logs = {}
    /\ pressure_logs = {}

NextOutage ==
    \/ LogLocallyOnTime
    \/ UploadToStore
    \/ LogReturn
    \/ StoreGoesDown
    \/ StoreComesBack

\* ---------------------------------------------------------------------
\* HeatmapRealtime (service/heatmap_tools/heatmap_realtime.py): the
\* real-time side channel.  sync() is called by the thread that calls
\* SignalPipeline.process; _upload_worker is its own thread.

MaxSyncs == 12

\* queue.Queue(maxsize=10)
Capacity == 10

NoHeatmap == 0

\* Queue.full(): 0 < maxsize <= qsize
full(q) == Len(q) >= Capacity

EmptyBelowCapacity(q) == Len(q) < Capacity

\* Queue.empty()
empty(q) == Len(q) = 0

otherThanRt == <<serialVars, pipeVars, logVars, storeVars, detVars>>

\* sync() is entered by a registered device (for an unregistered one the
\* call returns at once and changes nothing).
Sy_Call ==
    /\ sypc = "idle"
    /\ nsync < MaxSyncs
    /\ nsync' = nsync + 1
    /\ sypc' = "full"
    /\ sy_item' = nsync + 1
    /\ sy_full' = FALSE
    /\ UNCHANGED <<upload_queue, rt_is_running, rt_stop_event, upc, uheld, rspc,
                   last_put>>
    /\ UNCHANGED otherThanRt

\* if self.upload_queue.full(): self._clear_queue()
Sy_Full ==
    /\ sypc = "full"
    /\ sy_full' = full(upload_queue)
    /\ sypc' = IF full(upload_queue) THEN "clear" ELSE "put"
    /\ UNCHANGED <<upload_queue, rt_is_running, rt_stop_event, upc, uheld, sy_item,
                   nsync, rspc, last_put>>
    /\ UNCHANGED otherThanRt

\* _clear_queue: while not self.upload_queue.empty()
Sy_ClearTest ==
    /\ sypc = "clear"
    /\ sypc' = IF empty(upload_queue) THEN "put" ELSE "clear_get"
    /\ UNCHANGED <<upload_queue, rt_is_running, rt_stop_event, upc, uheld, sy_item,
                   nsync, rspc, sy_full, last_put>>
    /\ UNCHANGED otherThanRt

\* _clear_queue: get_nowait(); queue.Empty (the worker took the last item
\* since the test) ends the loop.
Sy_ClearGet ==
    /\ sypc = "clear_get"
    /\ IF upload_queue # <<>>
       THEN /\ upload_queue' = Tail(upload_queue)
            /\ sypc' = "clear"
       ELSE /\ sypc' = "put"
            /\ UNCHANGED upload_queue
    /\ UNCHANGED <<rt_is_running, rt_stop_event, upc, uheld, sy_item, nsync, rspc,
                   sy_full, last_put>>
    /\ UNCHANGED otherThanRt

\* put_nowait; on queue.Full the handler clears the queue and puts again.
Sy_Put ==
    /\ sypc = "put"
    /\ upload_queue' = IF Len(upload_queue) < Capacity
                       THEN Append(upload_queue, sy_item)
                       ELSE <<sy_item>>
    /\ last_put' = sy_item
    /\ sypc' = "idle"
    /\ UNCHANGED <<rt_is_running, rt_stop_event, upc, uheld, sy_item, nsync, rspc,
                   sy_full>>
    /\ UNCHANGED otherThanRt

\* while self.is_running: if not self.stop_event.is_set(): get ...
U_Loop ==
    /\ upc = "loop"
    /\ upc' = IF ~rt_is_running THEN "done"
              ELSE IF rt_stop_event THEN "check"
              ELSE "get"
    /\ UNCHANGED <<upload_queue, rt_is_running, rt_stop_event, uheld, sypc, sy_item,
                   nsync, rspc, sy_full, last_put>>
    /\ UNCHANGED otherThanRt

\* self.upload_queue.get(timeout=0.5) returns the oldest item
U_Get ==
    /\ upc = "get"
    /\ upload_queue # <<>>
    /\ uheld' = Head(upload_queue)
    /\ upload_queue' = Tail(upload_queue)
    /\ upc' = "upload"
    /\ UNCHANGED <<rt_is_running, rt_stop_event, sypc, sy_item, nsync, rspc, sy_full,
                   last_put>>
    /\ UNCHANGED otherThanRt

\* the get times out: queue.Empty, continue
U_Empty ==
    /\ upc = "get"
    /\ upload_queue = <<>>
    /\ upc' = "loop"
    /\ UNCHANGED <<upload_queue, rt_is_running, rt_stop_event, uheld, sypc, sy_item,
                   nsync, rspc, sy_full, last_put>>
    /\ UNCHANGED otherThanRt

\* update_heatmap returns (true or false) or raises; either way the worker
\* reaches the stop test at the end of the loop body.
U_Upload ==
    /\ upc = "upload"
    /\ uheld' = NoHeatmap
    /\ upc' = "check"
    /\ UNCHANGED <<upload_queue, rt_is_running, rt_stop_event, sypc, sy_item, nsync,
                   rspc, sy_full, last_put>>
    /\ UNCHANGED otherThanRt

\* if self.stop_event.is_set(): break
U_Check ==
    /\ upc = "check"
    /\ upc' = IF rt_stop_event THEN "done" ELSE "loop"
    /\ UNCHANGED <<upload_queue, rt_is_running, rt_stop_event, uheld, sypc, sy_item,
                   nsync, rspc, sy_full, last_put>>
    /\ UNCHANGED otherThanRt

\* HeatmapRealtime.stop: if self.is_running
RS_Begin ==
    /\ rspc = "idle"
    /\ rspc' = IF rt_is_running THEN "wait" ELSE "done"
    /\ UNCHANGED <<upload_queue, rt_is_running, rt_stop_event, upc, uheld, sypc,
                   sy_item, nsync, sy_full, last_put>>
    /\ UNCHANGED otherThanRt

\* the wait for the queue to empty, at most two seconds, then
\* self.is_running = False
RS_ClearRunning ==
    /\ rspc = "wait"
    /\ rt_is_running' = FALSE
    /\ rspc' = "set"
    /\ UNCHANGED <<upload_queue, rt_stop_event, upc, uheld, sypc, sy_item, nsync,
                   sy_full, last_put>>
    /\ UNCHANGED otherThanRt

\* self.stop_event.set()
RS_SetStop ==
    /\ rspc = "set"
    /\ rt_stop_event' = TRUE
    /\ rspc' = "join"
    /\ UNCHANGED <<upload_queue, rt_is_running, upc, uheld, sypc, sy_item, nsync,
                   sy_full, last_put>>
    /\ UNCHANGED otherThanRt

\* self.upload_thread.join(timeout=1.0): the thread ended, or the timeout did
RS_Join ==
    /\ rspc = "join"
    /\ rspc' = "done"
    /\ UNCHANGED <<upload_queue, rt_is_running, rt_stop_event, upc, uheld, sypc,
                   sy_item, nsync, sy_full, last_put>>
    /\ UNCHANGED otherThanRt

\* HeatmapRealtime.__init__ with _start_upload_thread
InitRealtime ==
    /\ upload_queue = <<>>
    /\ rt_is_running = TRUE
    /\ rt_stop_event = FALSE
    /\ upc = "loop"
    /\ uheld = NoHeatmap
    /\ sypc = "idle"
    /\ sy_item = NoHeatmap
    /\ nsync = 0
    /\ rspc = "idle"
    /\ sy_full = FALSE
    /\ last_put = NoHeatmap

NextRealtime ==
    \/ Sy_Call
    \/ Sy_Full
    \/ Sy_ClearTest
    \/ Sy_ClearGet
    \/ Sy_Put
    \/ U_Loop
    \/ U_Get
    \/ U_Empty
    \/ U_Upload
    \/ U_Check
    \/ RS_Begin
    \/ RS_ClearRunning
    \/ RS_SetStop
    \/ RS_Join

Init == InitSerial /\ InitPipeline /\ InitLogger /\ InitStore /\ InitRealtime /\ InitDetect

\* The serial and the pipeline specifications never move the logger; they
\* start it from the one initial state in which no patient is configured.
InitQuietLogger ==
    /\ InitSerial /\ InitPipeline /\ InitLoggerWith([kind |-> "none"])
    /\ InitStore /\ InitRealtime /\ InitDetect

SpecSerial == InitQuietLogger /\ [][NextSerial]_vars

SpecReader == InitQuietLogger /\ [][NextReader]_vars

(* stream() alone, on a board map that no reader thread changes any more. *)
InitConvert ==
    /\ \E bs \in Snapshots : InitSerialWith(bs)
    /\ InitPipeline /\ InitLoggerWith([kind |-> "none"])
    /\ InitStore /\ InitRealtime /\ InitDetect

NextConvert ==
    \/ S_Wait
    \/ S_Convert
    \/ S_Yield
    \/ S_Tick

SpecConvert == InitConvert /\ [][NextConvert]_vars

SpecPipeline == InitQuietLogger /\ [][NextPipeline]_vars

SpecDetect == InitQuietLogger /\ [][NextDetect]_vars

SpecLogger == Init /\ [][NextLogger]_vars

SpecOutage == InitQuietLogger /\ [][NextOutage]_vars

SpecRealtime == InitQuietLogger /\ [][NextRealtime]_vars

\* ---------------------------------------------------------------------
\* Shutdown of monitoring (tui/screens/run_screen.py,
\* _stop_sensor_monitoring): SignalPipeline.stop() is the one stop it
\* reaches; SerialCommunication has no stop method and nothing calls
\* HeatmapRealtime.stop.  process() is sync() followed by the put.

\* process(): self.heatmap_rt.sync(heatmap) is entered
Sh_Sync == nsync = nsubmitted /\ Sy_Call

\* process(): sync() has returned, self.task_queue.put(task)
Sh_Put == nsync = nsubmitted + 1 /\ sypc = "idle" /\ P_Process

DetectorWorker == W_CheckStop \/ W_Get \/ W_Finish \/ W_Raise

UploadWorker == U_Loop \/ U_Get \/ U_Empty \/ U_Upload \/ U_Check

PipelineStop == St_Set \/ St_Join \/ St_DrainTasks \/ St_DrainResults

NextShutdown ==
    \/ Sh_Sync
    \/ Sy_Full
    \/ Sy_Put
    \/ Sh_Put
    \/ W_CheckStop
    \/ W_Get
    \/ W_Finish
    \/ W_Raise
    \/ C_Take
    \/ St_Set
    \/ St_Join
    \/ St_DrainTasks
    \/ St_DrainResults
    \/ U_Loop
    \/ U_Get
    \/ U_Empty
    \/ U_Upload
    \/ U_Check

\* Every thread that can take a step is scheduled again and again.
SpecShutdown ==
    /\ InitQuietLogger
    /\ [][NextShutdown]_vars
    /\ WF_vars(DetectorWorker)
    /\ WF_vars(UploadWorker)
    /\ WF_vars(PipelineStop)

-----------------------------------------------------------------------------
(* Claims about the serial ingestion layer, checked under SpecSerial *)

(* C1: under every interleaving of the reader threads the revision counter  *)
(* equals the number of accepted readings whose guarded update completed    *)
(* (each adds exactly 1), a step never decreases it nor adds more than 1,   *)
(* and a step that reads a line (dropped or not) leaves it unchanged.       *)
C1_RevisionCountsAccepted ==
    /\ [](revision = published)
    /\ [][ /\ revision' \in {revision, revision + 1}
           /\ (nread' # nread => revision' = revision) ]_vars

(* one line was accepted and published, the other was dropped *)
C1_Witness ==
    /\ nread = 2
    /\ published = 1
    /\ revision = 1
    /\ \A p \in Ports : rpc[p] = "read"

(* C2: every board holds the reading most recently stored for it under the  *)
(* guard, and a board nobody wrote holds nothing: no interleaving of the    *)
(* reader threads loses, removes or replaces another board's entry.         *)
C2_NoLostWrite ==
    \A b \in BoardSet : boards[b] = lastPub[b]

(* two readings were published, for two different boards *)
C2_Witness ==
    /\ published = 2
    /\ boards["UNO1_"] # NoData
    /\ boards["UNO2_"] # NoData

(* C3: the (head, body) pair stream yields is the conversion of the board   *)
(* map as it stood at the revision read under the guard.                    *)
C3_EmittedFromSnapshot ==
    emitted # NoSignal =>
        [head |-> emitted.head, body |-> emitted.body]
            = _convert_to_matrix(hist[emitted.rev + 1])

-----------------------------------------------------------------------------
(* Claims about the detection pipeline, checked under SpecPipeline *)

(* C4: results are put in task submission order and no task is put twice:   *)
(* the history of puts is strictly increasing in the submission number.     *)
C4_ResultsInSubmissionOrder ==
    \A i, j \in 1..Len(pushed) : i < j => pushed[i] < pushed[j]

(* tasks 1 and 3 produced results, in that order, and task 2 was lost to an *)
(* exception in between                                                     *)
C4_Witness ==
    pushed = <<1, 3>>

(***************************************************************************)
(* Claims about the pressure logger                                        *)
(***************************************************************************)
\* A step that is the local half of one call of log().
LoggedLocally == lpc = "idle" /\ lpc' # "idle"

\* The entry list of day d as persisted, empty when the day has no file.
\* The most recent entry over all persisted days.
LatestCached(fs) ==
    LET d == MaxOf({x \in DOMAIN fs : fs[x].logs # <<>>})
    IN  fs[d].logs[Len(fs[d].logs)]

\* C5: an unbroken same-day, same-class stream of N observations spaced dt
\* apart, from the empty cache, leaves exactly one entry for the day; in it
\* every region flagged in all observations holds (N-1)*dt seconds and
\* every region flagged in none holds 0.
C5_StreamAccumulates ==
    (stream.ok /\ stream.n >= 1) =>
        LET logs == LogsOf(files, DateOf(clock))
        IN  /\ Len(logs) = 1
            /\ \A r \in stream.always :
                   logs[1].sec[r] * TicksPerSec = (stream.n - 1) * stream.dt
            /\ \A r \in Regions \ stream.ever : logs[1].sec[r] = 0

\* The same statement for streams spaced by whole seconds only.
StreamAccumulatesWholeSeconds ==
    (stream.dt % TicksPerSec = 0) => C5_StreamAccumulates

\* C6: an observation dated on another day than the most recent cached
\* entry appends to its own day's DayCache one entry with all seconds 0,
\* leaves that day's totals as they were, and resets every notification
\* flag (a flag can be up afterwards only by this observation's own notify).
C6_RolloverStartsFresh ==
    [][ (LoggedLocally /\ DOMAIN files # {}
           /\ DateOf(LatestCached(files).time) # DateOf(clock')) =>
          LET d == DateOf(clock')
              old == _open_daycache(files, d)
              new == files'[d]
          IN  /\ Len(new.logs) = Len(old.logs) + 1
              /\ SubSeq(new.logs, 1, Len(old.logs)) = old.logs
              /\ new.logs[Len(new.logs)].time = clock'
              /\ new.logs[Len(new.logs)].sec = ZeroSec
              /\ new.logs[Len(new.logs)].posture = obs'.posture.type
              /\ new.acc = old.acc
              /\ obs'.reset
              /\ \A r \in Regions : sent'[r] => r \in obs'.notify ]_vars

\* C6 witness: the day has changed under a lying posture that did not:
\* yesterday's session holds credit, today's first entry holds none.
C6_Witness ==
    /\ lpc = "upload"
    /\ obs.reset
    /\ DateOf(clock) - 1 \in DOMAIN files
    /\ DateOf(clock) \in DOMAIN files
    /\ LET y == files[DateOf(clock) - 1].logs
           t == files[DateOf(clock)].logs
       IN  /\ Len(t) = 1
           /\ t[1].sec = ZeroSec
           /\ y[Len(y)].posture = t[1].posture
           /\ y[Len(y)].sec["occiput"] > 0

\* C7: an observation changes its day's entry list in exactly one of two
\* ways: when it starts a session (or the day changed) it appends one
\* entry, otherwise it overwrites the last slot; every earlier entry stays
\* as it was and the length grows by one or not at all.
C7_AppendOrOverwriteLast ==
    [][ LoggedLocally =>
          LET d   == DateOf(clock')
              old == LogsOf(files, d)
              new == LogsOf(files', d)
          IN  IF obs'.appended
              THEN /\ Len(new) = Len(old) + 1
                   /\ SubSeq(new, 1, Len(old)) = old
              ELSE /\ Len(new) = Len(old)
                   /\ Len(old) >= 1
                   /\ SubSeq(new, 1, Len(old) - 1) = SubSeq(old, 1, Len(old) - 1)
                   /\ new[Len(new)].time = clock' ]_vars

\* C8: between two resets of the notification flags a region triggers a
\* notify request at most once, however long it stays above its threshold.
\* Stated for the stretches in which every request reached the messaging
\* service (a request that failed is repeated by design, C9) and for the
\* regions whose threshold is positive (so that one crossing is one event).
C8_NotifyOncePerReset ==
    all_sent => \A r \in Regions : threshold[r] > 0 => triggered[r] <= 1

\* C9: a flag goes up only in an observation whose notify call reported
\* success, and only for a region that newly qualified in it; when the send
\* did not succeed the flags stay as _trigger_notifications found them, and
\* every region that qualifies with its flag down is requested (again).
C9_FlagsOnlyOnSuccess ==
    [][ LoggedLocally =>
          LET before == IF obs'.reset THEN AllClear ELSE sent
              entry  == WrittenEntry(files', clock')
          IN  /\ \A r \in Regions :
                    (sent'[r] /\ ~before[r]) => (obs'.returned = "True" /\ r \in obs'.notify)
              /\ obs'.returned # "True" => sent' = before
              /\ \A r \in Regions :
                    (has_patient' /\ entry.sec[r] >= threshold'[r] /\ ~before[r])
                        => r \in obs'.notify ]_vars

\* C9 witness: a region over its one-minute threshold was requested and
\* the send failed; with no reset in between the next observation has
\* requested the same region again, and its flag is still down.
C9_Witness ==
    /\ lpc = "upload"
    /\ obs.send = "not_initialized"
    /\ ~obs.reset
    /\ "occiput" \in obs.notify
    /\ threshold["occiput"] = 60
    /\ triggered["occiput"] = 2
    /\ ~all_sent
    /\ ~sent["occiput"]

Uploaded == lpc = "upload" /\ lpc' = "return"

\* The calls of one sync step that went to the given operations, in order.
CallsTo(calls, ops) == SelectSeq(calls, LAMBDA c : c.op \in ops)

\* C11: when update_daylog of a DayCache with is_new cleared answers that
\* the row does not exist, create_daylog is the next call of the same sync
\* step, and the day-log step of that observation fails exactly when that
\* create fails.
C11_UpdateFallsBackToCreate ==
    [][ (Uploaded /\ ~files[DateOf(clock)].is_new) =>
           LET calls == obs'.calls
           IN  /\ calls[1].op = "update_daylog"
               /\ calls[1].out = "same" =>
                     /\ Len(calls) >= 2
                     /\ calls[2].op = "create_daylog"
                     /\ obs'.day_ok = (calls[2].out = "ok")
               /\ calls[1].out # "same" =>
                     /\ \A i \in DOMAIN calls : calls[i].op # "create_daylog"
                     /\ obs'.day_ok = (calls[1].out = "ok") ]_vars

\* C11 witness: the update found no row, the create that followed went
\* through and the sync step went on to the pressure log.
C11_Witness ==
    /\ lpc = "return"
    /\ obs.uploaded
    /\ Len(obs.calls) >= 3
    /\ obs.calls[1].op = "update_daylog" /\ obs.calls[1].out = "same"
    /\ obs.calls[2].op = "create_daylog" /\ obs.calls[2].out = "ok"
    /\ obs.day_ok

\* The pressure-log calls of a sync step, given the replies after which
\* update_pressurelog is followed by create_pressurelog.
PressureLogPush(fallback_replies) ==
    Uploaded =>
           LET p == CallsTo(obs'.calls, PressureLogOps)
           IN  IF ~obs'.day_ok
               THEN p = <<>>
               ELSE IF obs.appended
                    THEN Len(p) = 1 /\ p[1].op = "create_pressurelog"
                    ELSE /\ Len(p) \in {1, 2}
                         /\ p[1].op = "update_pressurelog"
                         /\ (Len(p) = 2) = (p[1].out \in fallback_replies)
                         /\ Len(p) = 2 => p[2].op = "create_pressurelog"

C13_SyncStepResult ==
    [][ Uploaded =>
           LET calls == obs'.calls
               d == CallsTo(calls, DayLogOps)
               p == CallsTo(calls, PressureLogOps)
           IN  /\ obs'.result \in BOOLEAN
               /\ \A i \in DOMAIN calls :
                     calls[i].out = "raise" => i = Len(calls) /\ ~obs'.result
               /\ obs'.result =>
                     /\ d # <<>> /\ d[Len(d)].out = "ok"
                     /\ p # <<>> /\ p[Len(p)].out = "ok"
               /\ \A i, j \in DOMAIN calls : calls[i].op = calls[j].op => i = j ]_vars

\* C13 witness: both updates found no row, both creates went through: four
\* calls, one per operation, and the step returned true.
C13_Witness ==
    /\ lpc = "return"
    /\ obs.uploaded
    /\ Len(obs.calls) = 4
    /\ obs.result

\* Every session entry of the local cache, over all days.
CachedEntries(fs) ==
    UNION { { fs[d].logs[i] : i \in 1..Len(fs[d].logs) } : d \in DOMAIN fs }

\* The sessions that are over: every cached entry but the one the latest
\* observation wrote.
EndedEntries(fs, t) == CachedEntries(fs) \ {WrittenEntry(fs, t)}

\* C14: once the store is reachable again and an observation has synced
\* with it successfully, every session entry recorded locally, the sessions
\* that began and ended during the outage included, is a row of
\* pressure_logs with the seconds the cache holds for it.
C14_OutageSessionsReachTheStore ==
    (outage = "after" /\ lpc = "return" /\ obs.uploaded /\ obs.result) =>
        \A e \in CachedEntries(files) : RowOf(e) \in pressure_logs

\* What makes the gap of C14 permanent: no step changes the row (or the
\* absence of a row) of a session that is over, so a session that ended
\* unsynced is never synced by a later observation.
EndedSessionsAreNeverPushed ==
    [][ files # << >> =>
           \A e \in EndedEntries(files, clock) :
              {l \in pressure_logs' : l.id = e.id} = {l \in pressure_logs : l.id = e.id}
      ]_vars

\* A session that ended during the outage is still missing from the store
\* after a successful sync with the store back.
OutageGapReached ==
    /\ outage = "after" /\ lpc = "return" /\ obs.uploaded /\ obs.result
    /\ \E e \in EndedEntries(files, clock) : ~HasRow([logs |-> pressure_logs], e.id)

\* sync() has just put its heatmap.
SyncPut == sypc = "put" /\ sypc' = "idle"

\* C15: the upload queue never holds more than Capacity heatmaps, and the
\* put of a sync() call that found the queue full leaves the queue holding
\* exactly the heatmap of that call.
C15_FullChannelKeepsNewestOnly ==
    [][ /\ Len(upload_queue) <= Capacity
        /\ Len(upload_queue') <= Capacity
        /\ (SyncPut /\ sy_full) => upload_queue' = <<sy_item>> ]_vars

\* C15 witness: a sync() call found ten heatmaps queued and has returned;
\* the queue holds its heatmap alone.
C15_Witness ==
    /\ sypc = "idle"
    /\ sy_full
    /\ last_put = sy_item
    /\ upload_queue = <<sy_item>>

\* C16: whenever the upload worker takes a heatmap from the queue, it is
\* the one most recently put.
C16_WorkerTakesNewest ==
    [][ (upc = "get" /\ upc' = "upload") => uheld' = last_put ]_vars

\* C17: once stop() has set the stop signal, a process() call adds no task
\* to the task queue.
C17_NoAdmissionAfterStop ==
    [][ (stop_event /\ nsubmitted' # nsubmitted) => task_queue' = task_queue ]_vars

\* C18: when stop() has returned, and even if no process() call put a task
\* after the stop signal, the task queue and the result queue are empty and
\* the worker holds no task (so none is classified or synced and no result
\* is pushed afterwards).
C18_DrainedForGood ==
    (stpc = "stopped" /\ ~admitted_late) =>
        /\ task_queue = <<>>
        /\ result_queue = <<>>
        /\ wpc # "work"

\* The part of C18 that does not depend on the producer: with no process()
\* call after the stop signal, a result still arrives after the drain.
ResultAfterDrain ==
    /\ stpc = "stopped"
    /\ result_queue # <<>>
    /\ task_queue = <<>>
    /\ ~admitted_late

\* C20: the task queue and the result queue have a capacity: in a run of
\* MaxTasks submissions the pending tasks, and the pending results, stay
\* below the number submitted however far the producer runs ahead of the
\* worker and the worker ahead of the consumer.
C20_QueuesBounded ==
    /\ Len(task_queue) < MaxTasks
    /\ Len(result_queue) < MaxTasks

\* C19: once monitoring has been stopped, the classification worker and
\* the side-channel upload worker eventually terminate.
C19_WorkersTerminate ==
    (stpc = "stopped") ~> (wpc = "exited" /\ upc = "done")

\* The flags the upload worker reads are not touched by the stop of
\* monitoring.
UploadWorkerNeverTold ==
    stpc = "stopped" /\ wpc = "exited" /\ rt_is_running /\ ~rt_stop_event /\ upc = "get"

\* What _log_locally decides for the observation a LogLocally step logs,
\* recomputed from the state before the step.
DecidedLocally ==
    LogLocallyResult(files, last_day_cache, clock', clock' + lag', obs'.posture)

\* The step left the threshold state as it was: nothing was fetched.
NothingFetched ==
    /\ loaded_at' = loaded_at
    /\ has_patient' = has_patient
    /\ threshold' = threshold

\* The cooldown of the non-forced refresh: no fetch in an observation that
\* is not a day rollover and comes less than `seconds' after the latest
\* fetch attempt, for the observations that satisfy `mode'.
Cooldown(mode, seconds) ==
    (LoggedLocally /\ mode /\ ~DecidedLocally.is_day_changed
        /\ (clock' + lag') - loaded_at < seconds * TicksPerSec)
    => NothingFetched

\* An observation that is a day rollover fetches: the attempt is stamped
\* with the wall clock of the observation.
RolloverFetches ==
    (LoggedLocally /\ DecidedLocally.is_day_changed) => loaded_at' = clock' + lag'

\* C21 as stated: no fetch within 60 s of the latest attempt, none within
\* 600 s once a patient threshold has been observed (the thresholds in use
\* are a patient's), and a day rollover always fetches.
C21_CooldownOncePatientSeen ==
    [][ /\ Cooldown(TRUE, 60)
        /\ Cooldown(threshold # [r \in Regions |-> DefaultThreshold], 600)
        /\ RolloverFetches ]_vars

\* C21, amended: no fetch within 60 s of the latest attempt, none within
\* 600 s while the latest answered fetch returned a patient configuration,
\* and a day rollover always fetches.
C21_CooldownWhilePatientKnown ==
    [][ /\ Cooldown(TRUE, 60)
        /\ Cooldown(has_patient, 600)
        /\ RolloverFetches ]_vars

\* C21 witness: an observation more than 60 s after the latest fetch was
\* logged with a patient configuration known, and nothing was fetched.
C21_Witness ==
    /\ lpc = "upload"
    /\ has_patient
    /\ ~obs.reset
    /\ (clock + lag) - loaded_at >= 60 * TicksPerSec

RECURSIVE SumSec(_, _)
\* The seconds of region r summed over a list of session entries.
SumSec(logs, r) ==
    IF logs = <<>> THEN 0 ELSE logs[1].sec[r] + SumSec(Tail(logs), r)

\* The daily totals of DayCache dc are the sums over its session entries.
TotalsMatch(dc) == \A r \in Regions : dc.acc[r] = SumSec(dc.logs, r)

\* The daily totals of day d as persisted, zero when the day has no file.
TotalsOf(fs, d) == _open_daycache(fs, d).acc

\* C22: after every observation each region's daily total of every
\* persisted DayCache equals the sum of that region's seconds over the
\* session entries of the day, and an observation that crosses into a new
\* day leaves every daily total as it was.
C22_DailyTotalsAreEntrySums ==
    [][ LoggedLocally =>
          /\ \A d \in DOMAIN files' : TotalsMatch(files'[d])
          /\ DecidedLocally.is_day_changed =>
                \A d \in DOMAIN files' : TotalsOf(files', d) = TotalsOf(files, d) ]_vars

\* ---------------------------------------------------------------------
\* The logger over a cache directory whose files may be unreadable: the
\* worker keeps up with the stream, and any observation may find the file
\* of its day unreadable.

ReadCourses == {"read", "unreadable"}

LogLocallyOnDisk ==
    LogLocallyFrom(Deltas, {0}, SamplePostures, {"unused", "none"}, ReadCourses)

NextStorage ==
    \/ LogLocallyOnDisk
    \/ UploadToServer
    \/ LogReturn

SpecStorage == InitQuietLogger /\ [][NextStorage]_vars

\* List `after' is list `before' grown at its end, or `before' with its
\* last slot overwritten.
GrownOrLastOverwritten(before, after) ==
    \/ /\ Len(after) >= Len(before)
       /\ \A i \in 1..Len(before) : after[i] = before[i]
    \/ /\ Len(after) = Len(before)
       /\ \A i \in 1..(Len(before) - 1) : after[i] = before[i]

\* C23: a session entry once persisted in a day's cache file is never
\* removed: in every step the persisted entry list of every day only grows
\* or has its last slot overwritten, also when the file cannot be read.
C23_PersistedEntriesKept ==
    [][ \A d \in DOMAIN files :
            /\ d \in DOMAIN files'
            /\ GrownOrLastOverwritten(files[d].logs, files'[d].logs) ]_vars

(***************************************************************************)
(* Claims about parsing and the reader threads, checked under SpecReader   *)
(***************************************************************************)
\* Form A: one or more BOARD_Ck : v tokens.
IsFormA(line) ==
    Len(line) > 0 /\ \A i \in 1..Len(line) : line[i].k = "A"

\* Form B: a bracketed board tag followed by one or more Ck=v tokens.
IsFormB(line) ==
    /\ Len(line) > 1
    /\ line[1].k = "T"
    /\ \A i \in 2..Len(line) : line[i].k = "B"

\* The channel-value pairs a Form A / Form B line writes for `board'.
WrittenFor(line, board) ==
    IF IsFormA(line)
    THEN {<<line[i].c, line[i].v>> : i \in {j \in 1..Len(line) : Upper(line[j].b) = board}}
    ELSE {<<line[i].c, line[i].v>> : i \in 2..Len(line)}

\* The upper-cased first board tag of a Form A / Form B line.
FirstBoard(line) ==
    IF IsFormA(line) THEN Upper(line[1].b) ELSE Upper(line[1].b) \o "_"

\* Reading d is what the Form A / Form B line says of its first board.
ReadingOf(line, d) ==
    LET written == WrittenFor(line, FirstBoard(line))
    IN  /\ d # NoData
        /\ d.board = FirstBoard(line)
        /\ d.board \in BoardSet
        /\ DOMAIN d.data = {<<d.board, w[1]>> : w \in written}
        /\ \A w \in written : <<w[1], d.data[<<d.board, w[1]>>]>> \in written

\* C24: the reading a thread holds for a Form A / Form B line has the
\* upper-cased first board tag of the line as its board and exactly the
\* channel-value pairs the line writes for that board as its channels, and
\* two threads that parsed the same line hold the same board and channels.
C24_ParseExact ==
    /\ \A p \in Ports :
          (rline[p] # NoLine /\ (IsFormA(rline[p]) \/ IsFormB(rline[p])))
              => ReadingOf(rline[p], rdata[p])
    /\ \A p, q \in Ports :
          (rline[p] # NoLine /\ rline[p] = rline[q]) => rdata[p] = rdata[q]

\* C24 witness: one thread holds the reading of a Form A line that names
\* two boards, the other one the reading of a Form B line.
C24_Witness ==
    \E p, q \in Ports :
        /\ rline[p] = <<TokA("uno1_", 0, 1), TokA("UNO2_", 0, -2)>>
        /\ rdata[p] = BoardData("UNO1_", DictPut(EmptyData, <<"UNO1_", 0>>, 1))
        /\ rline[q] # NoLine /\ IsFormB(rline[q])
        /\ rdata[q].board = "UNO2_"

\* Lines that are neither form: empty, free text only, or a bracketed board
\* tag with no channel token.
Malformed(line) ==
    \/ line = <<>>
    \/ \A i \in 1..Len(line) : line[i].k = "X"
    \/ /\ \E i \in 1..Len(line) : line[i].k = "T"
       /\ \A i \in 1..Len(line) : line[i].k \in {"T", "X"}

\* C25: a line that is empty, free text, or a bracketed board tag with no
\* channel token yields no reading: no thread ever publishes for it, so the
\* board map and the revision stay as they are.
C25_MalformedLinesDropped ==
    \A p \in Ports : rline[p] # NoLine => ~Malformed(rline[p])

\* C27: a transport fault on one line never ends a reader thread.
C27_ReaderSurvivesFaults ==
    \A p \in Ports : rpc[p] # "returned"

(***************************************************************************)
(* Claims about the conversion, checked under SpecConvert                  *)
(***************************************************************************)
\* Channel c of board b in map bs; 0 when the board or the channel is missing.
Channel(bs, b, c) ==
    IF bs[b] = NoData THEN 0 ELSE DictGet(bs[b].data, <<b, c>>)

\* The head grid of the statement: row r holds head-board channels 3r..3r+2.
HeadGrid(bs) ==
    [r \in 0..1 |-> [c \in 0..2 |-> Channel(bs, HEAD_BOARD, 3 * r + c)]]

\* The body grid of the statement: rows 2(i-1) and 2(i-1)+1 hold channels
\* 0..6 and 7..13 of body board UNOi, which is BOARDS[i + 1].
BodyGrid(bs) ==
    [r \in 0..11 |-> [c \in 0..6 |->
        Channel(bs, BOARDS[(r \div 2) + 2], 7 * (r % 2) + c)]]

\* C26: what stream() yields for a board map is the 2x3 head grid holding
\* head-board channels 0..2 and 3..5 and the 12x7 body grid holding, in rows
\* 2(i-1) and 2(i-1)+1, channels 0..6 and 7..13 of body board UNOi; missing
\* and zero channels are 0, channels past these ranges appear nowhere, and
\* each cell is written from one board only.
C26_GridsOfSnapshot ==
    emitted # NoSignal =>
        /\ emitted.head = HeadGrid(boards)
        /\ emitted.body = BodyGrid(boards)

\* C26 witness: the grids of a map with head-board channels 0 and 3, a
\* reading of UNO1 with channels 0, 7 and 13, and a negative channel 7 of
\* UNO6 were yielded.
C26_Witness ==
    /\ emitted # NoSignal
    /\ emitted.head[0][0] = 10 /\ emitted.head[1][0] = 20
    /\ emitted.body[0][0] = 1 /\ emitted.body[1][0] = 2 /\ emitted.body[1][6] = 4
    /\ emitted.body[11][0] = -2

(***************************************************************************)
(* Claims about the emission of stream(), checked under SpecSerial         *)
(***************************************************************************)
\* A step in which stream() yields.
Yielded == spc = "convert" /\ spc' = "wait" /\ emitted' # NoSignal

\* C28: a signal that follows an earlier one is yielded only when at least
\* the minimum interval has passed since that emission and the revision has
\* advanced since it: no two emissions within the interval, none for an
\* unchanged revision.
C28_EmitsOnIntervalAndRevision ==
    [][ (Yielded /\ emitted # NoSignal) =>
            /\ emitted'.time - emitted.time >= MinInterval
            /\ emitted'.rev > emitted.rev ]_vars

(***************************************************************************)
(* Claims about the posture adapter, checked under SpecDetect              *)
(***************************************************************************)
\* A result that detect() computed from a prediction of the classifier.
Classified ==
    /\ detected.task # NoTask
    /\ detected.prediction # NoPrediction

\* The flags of result r that are true.
FlagsOf(r) ==
    {f \in {"occiput", "scapula", "right_elbow", "left_elbow", "hip",
            "right_heel", "left_heel"} : r[f]}

\* The policy table: result r is what the table gives for class index
\* `posture' and the two leg flags.
PolicyTable(posture, right_leg, left_leg, r) ==
    CASE posture = 0 ->
           /\ {"occiput", "scapula", "hip", "right_elbow", "left_elbow"} \subseteq FlagsOf(r)
           /\ IF right_leg /\ left_leg
              THEN r.right_heel /\ r.left_heel /\ r.type = "SUPINE"
              ELSE IF right_leg \/ left_leg
              THEN /\ r.right_heel # r.left_heel
                   /\ r.type \in {"SUPINE_LEFT", "SUPINE_RIGHT"}
              ELSE ~r.right_heel /\ ~r.left_heel /\ r.type = "SUPINE_BOTH"
      [] posture = 1 -> r.type = "LEFT_SIDE" /\ FlagsOf(r) = {"left_elbow", "left_heel"}
      [] posture = 2 -> r.type = "RIGHT_SIDE" /\ FlagsOf(r) = {"right_elbow", "right_heel"}
      [] posture = 3 -> r.type = "PRONE" /\ FlagsOf(r) = {}
      [] posture = 5 -> r.type = "SITTING" /\ FlagsOf(r) = {"hip"}
      [] OTHER -> r.type = "UNKNOWN" /\ FlagsOf(r) = {}

C30_ArtifactFaultDegrades ==
    [][ (wpc = "work" /\ detected'.task = wtask /\ detected.task # wtask
            /\ detected'.artifact \in Artifacts \ {"loadable"})
        => /\ detected'.result = UnknownResult
           /\ wpc' = "work"
           /\ wtask' = wtask ]_vars

\* C31: a fault raised by the alert sender stays inside the notification
\* step: the call of log() in which messaging.send raised raises nothing,
\* performs its remote sync and returns a boolean.
C31_AlertFaultContained ==
    (lpc = "return" /\ obs.send = "raise") => (~obs.raised /\ obs.uploaded)

\* ---------------------------------------------------------------------
\* The logger against a store that stays reachable, on a disk whose reads
\* can fail.
NextResync ==
    \/ LogLocallyOnDisk
    \/ UploadToStore
    \/ LogReturn

SpecResync == InitQuietLogger /\ [][NextResync]_vars

\* C32: a DayCache marked is_new whose row is already in the store does not
\* keep the sync from succeeding: with the store reachable, the day-log step
\* of every sync goes through.
C32_SyncPassesExistingRows ==
    (lpc = "return" /\ obs.uploaded) => obs.day_ok

\* C33: in a continuing session, a region flagged in every observation is
\* credited the time elapsed between the session's first and latest
\* observation, short by less than one second.
C33_CreditWithinOneSecond ==
    (stream.ok /\ stream.n >= 1) =>
        LET entry == LatestCached(files)
        IN  \A r \in stream.always :
                (entry.time - entry.created_at) - entry.sec[r] * TicksPerSec < TicksPerSec

\* C34: an observation leaves the same DayCache behind whether its most
\* recent entry is served from the in-memory last-day cache or, as after a
\* restart (last_day_cache is None), re-read from the persisted files.
C34_SameAsAfterRestart ==
    [][ LoggedLocally =>
          files' = LogLocallyResult(files, NoCache, clock', clock' + lag',
                                    obs'.posture).files ]_vars

\* C35: sessions are maximal runs: no two adjacent entries of a DayCache's
\* entry list have the same posture class.
C35_SessionsAreMaximalRuns ==
    \A d \in DOMAIN files :
        \A i \in 1..(Len(files[d].logs) - 1) :
            files[d].logs[i].posture # files[d].logs[i + 1].posture

\* C36: when classification or pressure_cache.log raises while the worker
\* handles a task, that task alone is lost: nothing is pushed for it, both
\* queues stay as they are and the worker is back at the head of its loop;
\* every task taken afterwards is the next one in submission order, and a
\* result is pushed for the task in hand only.
C36_RaiseLosesOneTask ==
    [][ /\ (wpc = "work" /\ wpc' # "work" /\ pushed' = pushed) =>
              /\ wpc' = "loop"
              /\ task_queue' = task_queue
              /\ result_queue' = result_queue
        /\ (wpc = "get" /\ wpc' = "work") =>
              wtask' = nsubmitted - Len(task_queue) + 1
        /\ (pushed' # pushed) =>
              /\ pushed' = Append(pushed, wtask)
              /\ Len(result_queue') = Len(result_queue) + 1
              /\ result_queue'[Len(result_queue')].task = wtask ]_vars

\* C36 witness: the first task was lost to an exception and the two tasks
\* behind it were processed, in order.
C36_Witness ==
    /\ pushed = <<2, 3>>
    /\ wpc = "loop"
    /\ task_queue = <<>>

\* ---------------------------------------------------------------------
\* The serial layer with its threads scheduled: the consumer keeps pulling
\* from stream(), and a reader thread that holds an accepted reading gets
\* the guard and publishes it.
StreamPull == S_Wait \/ S_Convert \/ S_Yield

ReaderPublish(p) == R_Acquire(p) \/ R_Store(p) \/ R_Inc(p) \/ R_Release(p)

\* What the ports send here: readings of two boards, two of them of the
\* same board.  The clock stands still, so that nothing is emitted for the
\* interval's sake: every emission after the first answers a new revision.
DeliveryLines ==
    { <<TokA("UNO1_", 0, 1)>>,
      <<TokA("uno1_", 0, 2), TokA("UNO2_", 0, 1)>>,
      <<TokT("uno2"), TokB(0, 1), TokB(7, 2)>> }

NextDelivery ==
    \/ \E p \in Ports : R_ReadLineFrom(p, DeliveryLines)
    \/ \E p \in Ports : R_Acquire(p)
    \/ \E p \in Ports : R_Store(p)
    \/ \E p \in Ports : R_Inc(p)
    \/ \E p \in Ports : R_Release(p)
    \/ S_Wait
    \/ S_Convert
    \/ S_Yield

SpecDelivery ==
    /\ InitQuietLogger
    /\ [][NextDelivery]_vars
    /\ WF_vars(StreamPull)
    /\ \A p \in Ports : WF_vars(ReaderPublish(p))

\* The rows of the grids that belong to the board of index idx.
BoardRows(hb, idx) ==
    IF idx = 0 THEN hb.head
    ELSE [r \in {2 * idx - 2, 2 * idx - 1} |-> hb.body[r]]

\* The rows _convert_to_matrix fills from reading bd of that board.
RowsOfReading(idx, bd) ==
    BoardRows(ConvertBoard([head |-> ZeroHead, body |-> ZeroBody], idx, bd), idx)

\* What board b has held from the k-th published reading on.
HeldSince(b, k) == {hist[j][b] : j \in (k + 1)..Len(hist)} \cup {boards[b]}

\* A signal taken at the k-th published reading or later has been emitted,
\* and each board's rows in it are those of what the board held then or
\* has held since.
Delivered(k) ==
    /\ emitted # NoSignal
    /\ emitted.rev >= k
    /\ \A idx \in 0..(Len(BOARDS) - 1) :
          BoardRows(emitted, idx)
              \in {RowsOfReading(idx, x) : x \in HeldSince(BOARDS[idx + 1], k)}

\* C37: once a reading is accepted and published, stream() eventually
\* emits a signal whose grids hold that reading or a later reading of the
\* same board, wherever the consumer was when the reading arrived.
C37_AcceptedReadingIsEmitted ==
    \A k \in 1..MaxLines : (published >= k) ~> Delivered(k)

\* C37 witness: two readings were published, the second while the consumer
\* was not waiting, and a signal taken after both has been emitted.
C37_Witness ==
    /\ published = 2
    /\ Delivered(2)
    /\ emitted.head = ZeroHead
    /\ emitted.body # ZeroBody

\* ---------------------------------------------------------------------
\* The logger on a disk that can refuse a write.  Every task is logged on
\* the day it is stamped, so the DayCache that _log_locally returns is the
\* object _save_daycache has just made the in-memory copy.
SaveCourses == {"written", "unwritable"}

SaveChoices(needed) == IF needed THEN SaveCourses ELSE {"unused"}

LogLocallyOnFaultyDisk ==
    LogLocallyFrom(Deltas, {0}, SamplePostures, {"unused", "none"}, SaveCourses)

\* _upload_to_server on the DayCache in hand; its own _save_daycache (after
\* a day-log creation) can fail like any other.
UploadFromMemory ==
    /\ lpc = "upload"
    /\ \E daycache \in {last_day_cache} :
       \E up \in _upload_to_server(daycache, obs.appended) :
       \E save \in SaveChoices(up.daycache # daycache) :
       \E saved \in {IF save = "unused" THEN [files |-> files, mem |-> last_day_cache]
                     ELSE _save_daycache(files, last_day_cache, up.daycache, clock + lag)} :
            /\ files' = IF save = "written" THEN saved.files ELSE files
            /\ last_day_cache' = saved.mem
            /\ obs' = [obs EXCEPT !.uploaded = TRUE, !.calls = up.calls,
                                  !.day_ok = up.day_ok, !.result = up.result]
            /\ lpc' = "return"
    /\ UNCHANGED <<threshold, has_patient, loaded_at, sent, clock, lag, stream,
                   triggered, all_sent>>
    /\ UNCHANGED <<serialVars, pipeVars, storeVars, rtVars, detVars>>

NextDisk ==
    \/ LogLocallyOnFaultyDisk
    \/ UploadFromMemory
    \/ LogReturn

SpecDisk == InitQuietLogger /\ [][NextDisk]_vars

\* C38: a failed write of the day's file costs no observation: every call
\* of log() completes without raising.
C38_WriteFaultTolerated ==
    ~obs.raised

\* The ids of the entries of a list are pairwise distinct.
DistinctIds(logs) ==
    \A i, j \in 1..Len(logs) : i # j => logs[i].id # logs[j].id

\* C39: within one DayCache the entries have pairwise distinct ids, also
\* when several sessions start within the same second; and no step changes
\* the id or the created-at time that a slot of an entry list holds (an
\* extended session keeps both), nor shortens a list.
C39_IdsDistinctAndStable ==
    /\ [](\A d \in DOMAIN files : DistinctIds(files[d].logs))
    /\ [][ \A d \in DOMAIN files :
              /\ d \in DOMAIN files'
              /\ Len(files'[d].logs) >= Len(files[d].logs)
              /\ \A i \in 1..Len(files[d].logs) :
                    /\ files'[d].logs[i].id = files[d].logs[i].id
                    /\ files'[d].logs[i].created_at = files[d].logs[i].created_at ]_vars

\* C39 witness: two sessions of one day started within the same second and
\* the second of them has been extended since.
C39_Witness ==
    \E d \in DOMAIN files :
        LET logs == files[d].logs
        IN  /\ Len(logs) = 2
            /\ StampId(logs[1].created_at) = StampId(logs[2].created_at)
            /\ logs[2].id = logs[1].id + 1
            /\ logs[2].time > logs[2].created_at

\* ---------------------------------------------------------------------
\* The logger of a device whose patient has one region switched off: the
\* heel threshold is 0 or negative minutes, every other is one minute.  The
\* patient row is fetched by the constructor; later fetches fail and leave
\* the thresholds as they are.
OffPatients == {[r \in Regions |-> IF r = "heel" THEN v ELSE 1] : v \in {0, -1}}

InitThreshold ==
    /\ InitSerial /\ InitPipeline
    /\ \E m \in OffPatients : InitLoggerWith([kind |-> "patient", minutes |-> m])
    /\ InitStore /\ InitRealtime /\ InitDetect

LogLocallyForPatient ==
    LogLocallyFrom(Deltas, {0}, SamplePostures, {"unused", "raise"}, {"read"})

NextThreshold ==
    \/ LogLocallyForPatient
    \/ UploadToServer
    \/ LogReturn

SpecThreshold == InitThreshold /\ [][NextThreshold]_vars

\* C40: a region whose patient threshold is zero or negative (0 seconds
\* after _threshold_from_patient) is never among the regions an
\* observation requests a notification for.
C40_OffRegionNeverNotifies ==
    \A r \in Regions : threshold[r] <= 0 => r \notin obs.notify

====
